---- MODULE Spec2Model ----
(***************************************************************************)
(* hash-rings-rs: the hash rings and their tracking clients as state       *)
(* machines.  Maps (HashMap, BTreeMap) are functions whose DOMAIN is the   *)
(* key set; a panic ends the run of the program (op.ok = FALSE disables    *)
(* every operation) and leaves the state as the panicking call left it.    *)
(***************************************************************************)
EXTENDS Integers, Sequences, FiniteSets, TLC

\* ---------------------------------------------------------------- bounds
MaxNode == 2
MaxReplicas == 2
MaxPoint == 1
MaxKey == 3
HashMax == 3
MaxWeight == 2
MaxProbes == 2
MaxListLen == 2
MaxHint == 4
MaxMagLen == 3
SieveSlack == 1
MaxJumpNodes == 8
MaxJumpKey == 15
CarpGrain == 3

Nodes == 0 .. MaxNode
\* the points a tracking client is given to track
Points == 0 .. MaxPoint
\* the keys a plain ring is asked to look up
Keys == 0 .. MaxKey
HashSpace == 0 .. HashMax
HashMod == HashMax + 1
ReplicaCounts == 1 .. MaxReplicas
Weights == 0 .. MaxWeight
\* the weights the tracking client is driven with: none and the largest
ClientWeights == {0, MaxWeight}

\* absent results (Option::None)
NoNode == 0 - 1
NoKey == 0 - 1

VARIABLES
    sys,            \* which ring / client is being driven
    op,             \* the last call: name, arguments, whether it returned, its result
    con_nodes,      \* consistent::Ring.nodes  : BTreeMap<u64, &T>  (the wheel)
    con_replicas,   \* consistent::Ring.replicas : HashMap<&T, usize>
    con_data,       \* consistent::Client.data : BTreeMap<u64, HashSet<&U>>
    con_trip,       \* the wheel before the latest Ring::remove_node, for the round trip
    rdv_ring,       \* rendezvous::Ring.nodes : HashMap<&T, Vec<u64>>
    rdv_nodes,      \* rendezvous::Client.nodes : HashMap<&T, HashSet<&U>>
    rdv_points,     \* rendezvous::Client.points : HashMap<&U, (&T, u64)>
    wr_ring,        \* weighted_rendezvous::Ring.nodes : HashMap<&T, f64>
    wr_nodes,       \* weighted_rendezvous::Client.nodes : HashMap<&T, HashSet<&U>>
    wr_points,      \* weighted_rendezvous::Client.points : HashMap<&U, (&T, f64)>
    carp_nodes,     \* carp::Ring.nodes : Vec<Node<T>>
    carp_list,      \* the node list of carp::Ring::new, while it is the last call
    mpc_nodes,      \* mpc::Ring.nodes : BTreeMap<u64, &T>
    mpc_hash_count, \* mpc::Ring.hash_count : u64
    mpc_trip,       \* the mpc ring before the latest insert_node, for the round trip
    mag_nodes,      \* maglev::Ring.nodes : Vec<&T>
    mag_lookup,     \* maglev::Ring.lookup : Vec<usize>
    mag_old,        \* the maglev ring a rebuilt ring replaced, and the node left out
    jump_nodes      \* jump::Ring.nodes : u32

vars == <<sys, op, con_nodes, con_replicas, con_data, con_trip,
          rdv_ring, rdv_nodes, rdv_points, wr_ring, wr_nodes, wr_points,
          carp_nodes, carp_list, mpc_nodes, mpc_hash_count, mpc_trip, mag_nodes, mag_lookup, mag_old,
          jump_nodes>>
conVars == <<con_nodes, con_replicas, con_data, con_trip>>
rdvVars == <<rdv_ring, rdv_nodes, rdv_points>>
wrVars == <<wr_ring, wr_nodes, wr_points>>
\* what the operations of one ring and its client leave alone
carpVars == <<carp_nodes, carp_list>>
mpcVars == <<mpc_nodes, mpc_hash_count, mpc_trip>>
magVars == <<mag_nodes, mag_lookup, mag_old>>
jumpVars == <<jump_nodes>>
notCon == <<sys, rdvVars, wrVars, carpVars, mpcVars, magVars, jumpVars>>
notRdv == <<sys, conVars, wrVars, carpVars, mpcVars, magVars, jumpVars>>
notWr == <<sys, conVars, rdvVars, carpVars, mpcVars, magVars, jumpVars>>
notCarp == <<sys, conVars, rdvVars, wrVars, mpcVars, magVars, jumpVars>>
notMpc == <<sys, conVars, rdvVars, wrVars, carpVars, magVars, jumpVars>>
notMag == <<sys, conVars, rdvVars, wrVars, carpVars, mpcVars, jumpVars>>
notJump == <<sys, conVars, rdvVars, wrVars, carpVars, mpcVars, magVars>>

\* ---------------------------------------------------------------- maps
EmptyMap == [k \in {} |-> 0]

MapPut(m, k, v) == [x \in (DOMAIN m) \cup {k} |-> IF x = k THEN v ELSE m[x]]

MapDel(m, k) == [x \in (DOMAIN m) \ {k} |-> m[x]]

SetMin(S) == CHOOSE x \in S : \A y \in S : x <= y

SetMax(S) == CHOOSE x \in S : \A y \in S : x >= y

\* ---------------------------------------------------------------- hashing
\* The hasher is a parameter of every ring (H: BuildHasher).  The model's
\* hasher has HashMod output values and mixes additively (test_util's
\* AddHasher, reduced to HashMod values).  The node type is the tests' Key,
\* whose Hash impl writes id / 2: ids 2k and 2k + 1 hash alike.
GenHashNode(id) == (id \div 2) % HashMod

GenHashIndex(i) == i % HashMod

GenHashPoint(p) == p % HashMod

CombineHash(x, y) == (x + y) % HashMod

\* combine_hash(gen_hash(id), gen_hash(i)): the position of replica i of id
ReplicaHash(id, i) == CombineHash(GenHashNode(id), GenHashIndex(i))

ReplicaHashes(id, replicas) == {ReplicaHash(id, i) : i \in 0 .. (replicas - 1)}

\* the arg recorded for remove_node: whether the ring held the id when called
Held(b) == IF b THEN 1 ELSE 0

Call(name, id, arg) == [name |-> name, id |-> id, arg |-> arg, ok |-> TRUE, ret |-> NoNode]

Panic(name, id, arg) == [name |-> name, id |-> id, arg |-> arg, ok |-> FALSE, ret |-> NoNode]

Returned(name, id, arg, ret) == [name |-> name, id |-> id, arg |-> arg, ok |-> TRUE, ret |-> ret]

\* ---------------------------------------------------------------- consistent::Ring
\* faulty variant: range((Excluded(hash), Unbounded)) instead of range(hash..)
ConNextKeyGT(m, hash) ==
    LET ge == {k \in DOMAIN m : k > hash}
    IN  IF ge # {} THEN SetMin(ge)
        ELSE IF DOMAIN m # {} THEN SetMin(DOMAIN m) ELSE NoKey

\* range(hash..).next().or_else(|| iter().next()): the key of the entry found
ConNextKey(m, hash) ==
    LET ge == {k \in DOMAIN m : k >= hash}
    IN  IF ge # {} THEN SetMin(ge)
        ELSE IF DOMAIN m # {} THEN SetMin(DOMAIN m) ELSE NoKey

ConRingGetNextNode(nodes, hash) ==
    LET k == ConNextKey(nodes, hash)
    IN  IF k = NoKey THEN NoNode ELSE nodes[k]

\* faulty variant: the loop runs over 0..replicas - 1
ConRingInsertNodeShort(nodes, id, replicas) ==
    LET hs == ReplicaHashes(id, replicas - 1)
    IN  [k \in (DOMAIN nodes) \cup hs |-> IF k \in hs THEN id ELSE nodes[k]]

ConRingInsertNode(nodes, id, replicas) ==
    LET hs == ReplicaHashes(id, replicas)
    IN  [k \in (DOMAIN nodes) \cup hs |-> IF k \in hs THEN id ELSE nodes[k]]

\* faulty variant: the loop runs over 0..=replicas
ConRingRemoveNodeInclusive(nodes, reps, id) ==
    LET gone == {k \in ReplicaHashes(id, reps[id] + 1) : k \in DOMAIN nodes /\ nodes[k] = id}
    IN  [k \in (DOMAIN nodes) \ gone |-> nodes[k]]

\* only called with id \in DOMAIN reps (self.replicas[id] panics otherwise)
ConRingRemoveNode(nodes, reps, id) ==
    LET gone == {k \in ReplicaHashes(id, reps[id]) : k \in DOMAIN nodes /\ nodes[k] = id}
    IN  [k \in (DOMAIN nodes) \ gone |-> nodes[k]]

\* get_node: the node, or NoNode where the code panics ("empty ring")
ConRingGetNode(nodes, point) == ConRingGetNextNode(nodes, GenHashPoint(point))

NoTrip == [state |-> "none", id |-> NoNode, replicas |-> 0, nodes |-> EmptyMap]

ConRingInsert(id, replicas) ==
    /\ op.ok
    /\ con_nodes' = ConRingInsertNode(con_nodes, id, replicas)
    /\ con_replicas' = MapPut(con_replicas, id, replicas)
    /\ con_trip' = IF con_trip.state = "removed" /\ con_trip.id = id
                      /\ con_trip.replicas = replicas
                       THEN [con_trip EXCEPT !.state = "restored"]
                       ELSE NoTrip
    /\ op' = Call("insert_node", id, replicas)
    /\ UNCHANGED <<con_data, notCon>>

ConRingRemove(id) ==
    /\ op.ok
    /\ IF id \notin DOMAIN con_replicas
           THEN /\ op' = Panic("remove_node", id, Held(id \in DOMAIN con_replicas))
                /\ UNCHANGED conVars
           ELSE /\ con_nodes' = ConRingRemoveNode(con_nodes, con_replicas, id)
                /\ con_replicas' = MapDel(con_replicas, id)
                /\ con_trip' = [state |-> "removed", id |-> id,
                                replicas |-> con_replicas[id], nodes |-> con_nodes]
                /\ op' = Call("remove_node", id, Held(id \in DOMAIN con_replicas))
                /\ UNCHANGED con_data
    /\ UNCHANGED notCon

ConRingGet(point) ==
    /\ op.ok
    /\ LET node == ConRingGetNode(con_nodes, point)
       IN  op' = IF node = NoNode THEN Panic("get_node", NoNode, point)
                                  ELSE Returned("get_node", NoNode, point, node)
    /\ UNCHANGED <<conVars, notCon>>

\* len(), is_empty(), iter()
ConRingLen(reps) == Cardinality(DOMAIN reps)

ConRingIsEmpty(reps) == DOMAIN reps = {}

ConRingIter(reps) == {<<id, reps[id]>> : id \in DOMAIN reps}


\* ---------------------------------------------------------------- consistent::Client
\* the partition predicate of insert_node: TRUE keeps the point in the old bucket
ConStaysInOld(new_hash, point_hash, hash) ==
    IF new_hash < hash
        THEN new_hash < point_hash /\ point_hash < hash
        ELSE new_hash < point_hash \/ point_hash < hash

RECURSIVE ConInsertLoop(_, _, _, _)
ConInsertLoop(data, id, i, replicas) ==
    IF i >= replicas THEN data
    ELSE LET new_hash == ReplicaHash(id, i) IN
         IF new_hash \in DOMAIN data THEN ConInsertLoop(data, id, i + 1, replicas)
         ELSE LET hash == ConNextKey(data, new_hash) IN
              IF hash = NoKey
                  THEN ConInsertLoop(MapPut(data, new_hash, {}), id, i + 1, replicas)
                  ELSE LET old_set == {p \in data[hash] :
                                          ConStaysInOld(new_hash, GenHashPoint(p), hash)}
                           new_set == data[hash] \ old_set
                       IN  ConInsertLoop(MapPut(MapPut(data, hash, old_set), new_hash, new_set),
                                         id, i + 1, replicas)

\* the loop of remove_node, run on the ring as ring.remove_node left it;
\* the result is the data map and whether the loop ran to its end
RECURSIVE ConRemoveLoop(_, _, _, _, _)
ConRemoveLoop(data, nodes, id, i, replicas) ==
    IF i >= replicas THEN [data |-> data, ok |-> TRUE]
    ELSE LET hash == ReplicaHash(id, i) IN
         IF hash \in DOMAIN nodes \/ hash \notin DOMAIN data
             THEN ConRemoveLoop(data, nodes, id, i + 1, replicas)
             ELSE LET points == data[hash]
                      rest == MapDel(data, hash)
                      next == ConNextKey(rest, hash)
                  IN  IF next = NoKey
                          THEN [data |-> rest, ok |-> FALSE]
                          ELSE ConRemoveLoop(MapPut(rest, next, rest[next] \cup points),
                                             nodes, id, i + 1, replicas)

ConGetPoints(data, reps, id) ==
    UNION {data[h] : h \in ReplicaHashes(id, reps[id]) \cap DOMAIN data}

ConTracked(data) == UNION {data[h] : h \in DOMAIN data}

ConClientInsertNode(id, replicas) ==
    /\ op.ok
    /\ con_nodes' = ConRingInsertNode(con_nodes, id, replicas)
    /\ con_replicas' = MapPut(con_replicas, id, replicas)
    /\ con_data' = ConInsertLoop(con_data, id, 0, replicas)
    /\ op' = Call("insert_node", id, replicas)
    /\ UNCHANGED <<con_trip, notCon>>

ConClientRemoveNode(id) ==
    /\ op.ok
    /\ IF id \notin DOMAIN con_replicas
           THEN /\ op' = Panic("remove_node", id, Held(id \in DOMAIN con_replicas))
                /\ UNCHANGED conVars
           ELSE LET nodes == ConRingRemoveNode(con_nodes, con_replicas, id)
                    res == ConRemoveLoop(con_data, nodes, id, 0, con_replicas[id])
                IN  /\ con_nodes' = nodes
                    /\ con_replicas' = MapDel(con_replicas, id)
                    /\ con_data' = res.data
                    /\ op' = IF res.ok
                                 THEN Call("remove_node", id, Held(id \in DOMAIN con_replicas))
                                 ELSE Panic("remove_node", id, Held(id \in DOMAIN con_replicas))
    /\ UNCHANGED <<con_trip, notCon>>

ConClientInsertPoint(point) ==
    /\ op.ok
    /\ LET k == ConNextKey(con_data, GenHashPoint(point))
       IN  IF k = NoKey
               THEN /\ op' = Panic("insert_point", NoNode, point)
                    /\ UNCHANGED conVars
               ELSE /\ con_data' = MapPut(con_data, k, con_data[k] \cup {point})
                    /\ op' = Call("insert_point", NoNode, point)
                    /\ UNCHANGED <<con_nodes, con_replicas>>
    /\ UNCHANGED <<con_trip, notCon>>

ConClientRemovePoint(point) ==
    /\ op.ok
    /\ LET k == ConNextKey(con_data, GenHashPoint(point))
       IN  IF k = NoKey
               THEN /\ op' = Panic("remove_point", NoNode, point)
                    /\ UNCHANGED conVars
               ELSE /\ con_data' = MapPut(con_data, k, con_data[k] \ {point})
                    /\ op' = Call("remove_point", NoNode, point)
                    /\ UNCHANGED <<con_nodes, con_replicas>>
    /\ UNCHANGED <<con_trip, notCon>>

\* Client::get_node: self.ring.get_node(point)
ConClientGetNode(point) == ConRingGet(point)

\* Client::iter, consumed to its end: the pairs it yields, or ok = FALSE where
\* `self.data[&hash]` panics because a replica position has no bucket
ConClientIter(data, reps) ==
    [ok |-> \A id \in DOMAIN reps : ReplicaHashes(id, reps[id]) \subseteq DOMAIN data,
     items |-> {<<id, UNION {data[h] : h \in ReplicaHashes(id, reps[id]) \cap DOMAIN data}>> :
                   id \in DOMAIN reps}]

\* ---------------------------------------------------------------- rendezvous::Ring
RdvHashes(id, replicas) == [i \in 1 .. replicas |-> ReplicaHash(id, i - 1)]

\* max over the replica hashes of combine_hash(hash, point_hash)
RdvMaxScore(hashes, point) ==
    SetMax({CombineHash(hashes[i], GenHashPoint(point)) : i \in 1 .. Len(hashes)})

\* the (score, id) order with the ids reversed
RdvTupleLeqIdDescending(a, b) == a[1] < b[1] \/ (a[1] = b[1] /\ a[2] >= b[2])

\* Ord on the (score, id) tuples the ring maximises
RdvTupleLeq(a, b) == a[1] < b[1] \/ (a[1] = b[1] /\ a[2] <= b[2])

\* get_node: the node, or NoNode where the code panics ("Expected non-empty ring.")
RdvRingGetNode(ring, point) ==
    IF DOMAIN ring = {} THEN NoNode
    ELSE LET tuples == {<<RdvMaxScore(ring[id], point), id>> : id \in DOMAIN ring}
             best == CHOOSE t \in tuples : \A u \in tuples : RdvTupleLeq(u, t)
         IN  best[2]

RdvRingInsert(id, replicas) ==
    /\ op.ok
    /\ rdv_ring' = MapPut(rdv_ring, id, RdvHashes(id, replicas))
    /\ op' = Call("insert_node", id, replicas)
    /\ UNCHANGED <<rdv_nodes, rdv_points, notRdv>>

RdvRingRemove(id) ==
    /\ op.ok
    /\ rdv_ring' = MapDel(rdv_ring, id)
    /\ op' = Call("remove_node", id, Held(id \in DOMAIN rdv_ring))
    /\ UNCHANGED <<rdv_nodes, rdv_points, notRdv>>

RdvRingGet(point) ==
    /\ op.ok
    /\ LET node == RdvRingGetNode(rdv_ring, point)
       IN  op' = IF node = NoNode THEN Panic("get_node", NoNode, point)
                                  ELSE Returned("get_node", NoNode, point, node)
    /\ UNCHANGED <<rdvVars, notRdv>>

\* ---------------------------------------------------------------- rendezvous::Client
\* the points insert_node moves: those the new node scores strictly higher
RdvMovers(points, hashes) ==
    {p \in DOMAIN points : RdvMaxScore(hashes, p) > points[p].score}

\* the loop body of insert_node applied to the points of `moved`
RdvMoveNodes(nodes, points, moved) ==
    [n \in DOMAIN nodes |-> nodes[n] \ {p \in moved : points[p].node = n}]

RdvMovePoints(points, hashes, id, moved) ==
    [p \in DOMAIN points |->
        IF p \in moved THEN [node |-> id, score |-> RdvMaxScore(hashes, p)]
                       ELSE points[p]]

RdvClientInsertNode(id, replicas) ==
    /\ op.ok
    /\ LET hashes == RdvHashes(id, replicas)
           movers == RdvMovers(rdv_points, hashes)
           \* get_mut(original_node).expect("Expected node to exist.")
           orphans == {p \in movers : rdv_points[p].node \notin DOMAIN rdv_nodes}
       IN  /\ rdv_ring' = MapPut(rdv_ring, id, hashes)
           /\ IF orphans = {}
                  THEN /\ rdv_nodes' = MapPut(RdvMoveNodes(rdv_nodes, rdv_points, movers),
                                              id, movers)
                       /\ rdv_points' = RdvMovePoints(rdv_points, hashes, id, movers)
                       /\ op' = Call("insert_node", id, replicas)
                  ELSE \* the iteration order of the points map decides how far the loop got
                       \E done \in SUBSET (movers \ orphans) :
                           /\ rdv_nodes' = RdvMoveNodes(rdv_nodes, rdv_points, done)
                           /\ rdv_points' = RdvMovePoints(rdv_points, hashes, id, done)
                           /\ op' = Panic("insert_node", id, replicas)
    /\ UNCHANGED notRdv

\* the loop of remove_node over the removed bucket: each point goes to the
\* node the ring now returns for it
RdvReassignNodes(nodes, ring, orphaned) ==
    [n \in DOMAIN nodes |-> nodes[n] \cup {p \in orphaned : RdvRingGetNode(ring, p) = n}]

RdvReassignPoints(points, ring, orphaned) ==
    [p \in (DOMAIN points) \cup orphaned |->
        IF p \in orphaned
            THEN LET new_node == RdvRingGetNode(ring, p)
                 IN  [node |-> new_node, score |-> RdvMaxScore(ring[new_node], p)]
            ELSE points[p]]

\* remove_node that leaves the client's buckets alone
RdvClientRemoveNodeRingOnly(id) ==
    /\ op.ok
    /\ rdv_ring' = MapDel(rdv_ring, id)
    /\ op' = Call("remove_node", id, Held(id \in DOMAIN rdv_ring))
    /\ UNCHANGED <<rdv_nodes, rdv_points, notRdv>>

RdvClientRemoveNode(id) ==
    /\ op.ok
    /\ LET ring == MapDel(rdv_ring, id)
       IN  /\ rdv_ring' = ring
           /\ IF DOMAIN ring = {}
                  THEN /\ op' = Panic("remove_node", id, Held(id \in DOMAIN rdv_ring))
                       /\ UNCHANGED <<rdv_nodes, rdv_points>>
                  ELSE /\ op' = Call("remove_node", id, Held(id \in DOMAIN rdv_ring))
                       /\ IF id \in DOMAIN rdv_nodes
                              THEN /\ rdv_nodes' = RdvReassignNodes(MapDel(rdv_nodes, id),
                                                                    ring, rdv_nodes[id])
                                   /\ rdv_points' = RdvReassignPoints(rdv_points, ring,
                                                                      rdv_nodes[id])
                              ELSE UNCHANGED <<rdv_nodes, rdv_points>>
    /\ UNCHANGED notRdv

RdvClientInsertPoint(point) ==
    /\ op.ok
    /\ LET node == RdvRingGetNode(rdv_ring, point)
       IN  IF node = NoNode \/ node \notin DOMAIN rdv_nodes
               THEN /\ op' = Panic("insert_point", NoNode, point)
                    /\ UNCHANGED rdvVars
               ELSE /\ rdv_nodes' = MapPut(rdv_nodes, node, rdv_nodes[node] \cup {point})
                    /\ rdv_points' = MapPut(rdv_points, point,
                           [node |-> node, score |-> RdvMaxScore(rdv_ring[node], point)])
                    /\ op' = Returned("insert_point", NoNode, point, node)
                    /\ UNCHANGED rdv_ring
    /\ UNCHANGED notRdv

RdvClientRemovePoint(point) ==
    /\ op.ok
    /\ LET node == RdvRingGetNode(rdv_ring, point)
       IN  IF node = NoNode \/ node \notin DOMAIN rdv_nodes
               THEN /\ op' = Panic("remove_point", NoNode, point)
                    /\ UNCHANGED rdvVars
               ELSE /\ rdv_nodes' = MapPut(rdv_nodes, node, rdv_nodes[node] \ {point})
                    /\ rdv_points' = MapDel(rdv_points, point)
                    /\ op' = Call("remove_point", NoNode, point)
                    /\ UNCHANGED rdv_ring
    /\ UNCHANGED notRdv

\* Client::get_node: self.ring.get_node(point)
RdvClientGetNode(point) == RdvRingGet(point)

\* get_points(id) = self.nodes[id]; len() = self.nodes.len()
RdvGetPoints(nodes, id) == nodes[id]

\* ---------------------------------------------------------------- f64 scores
\* An f64 score is NaN, -inf, +inf or a finite value n / d (d > 0).  The
\* hash value h stands for the fraction x = h as f64 / u64::max_value() as f64:
\* h = 0 for x = 0.0, h = HashMax for x = 1.0, and a value between them for the
\* x whose -ln(x) is LnNeg(h).
Fin(n, d) == [k |-> "fin", n |-> n, d |-> d]
NaN == [k |-> "nan", n |-> 0, d |-> 1]
PInf == [k |-> "pinf", n |-> 0, d |-> 1]
NInf == [k |-> "ninf", n |-> 0, d |-> 1]

LnNeg(h) == 2 * (HashMax - h) + 1

ScoreRank(a) == IF a.k = "ninf" THEN 0 ELSE IF a.k = "fin" THEN 1 ELSE 2

\* a > b on f64: false when either is NaN
ScoreGt(a, b) ==
    /\ a.k # "nan"
    /\ b.k # "nan"
    /\ \/ ScoreRank(a) > ScoreRank(b)
       \/ a.k = "fin" /\ b.k = "fin" /\ a.n * b.d > b.n * a.d

\* -weight / (hash as f64 / u64::max_value() as f64).ln()
WrRingScore(weight, h) ==
    IF h = 0 THEN Fin(0, 1)                                   \* -w / -inf = 0.0
    ELSE IF h = HashMax THEN (IF weight = 0 THEN NaN ELSE NInf) \* -w / 0.0
    ELSE Fin(weight, LnNeg(h))

\* coefficient = -1.0 / (...).ln(); weight / coefficient
WrClientScore(weight, h) ==
    IF h = 0 THEN (IF weight = 0 THEN NaN ELSE PInf)          \* w / 0.0
    ELSE IF h = HashMax THEN Fin(0, 1)                        \* w / -inf
    ELSE Fin(weight * LnNeg(h), 1)

\* combine_hash(gen_hash(id), point_hash)
WrHash(id, point) == CombineHash(GenHashNode(id), GenHashPoint(point))

\* ---------------------------------------------------------------- weighted_rendezvous::Ring
\* the orders in which a HashMap may yield the keys S
IterOrders(S) == {f \in [S -> 1 .. Cardinality(S)] : \A a, b \in S : a # b => f[a] # f[b]}

\* the score of every node of the ring for a point
WrScores(ring, point) == [id \in DOMAIN ring |-> WrRingScore(ring[id], WrHash(id, point))]

\* whether get_node panics: an empty map has no maximum, and
\* partial_cmp(..).expect(..) panics as soon as a NaN meets another score
WrGetNodePanics(ring, point) ==
    \/ DOMAIN ring = {}
    \/ /\ Cardinality(DOMAIN ring) >= 2
       /\ \E id \in DOMAIN ring : WrScores(ring, point)[id].k = "nan"

\* the entries that compare greatest; max_by keeps the last of them the map yields
WrTop(ring, point) ==
    LET sc == WrScores(ring, point)
    IN  {id \in DOMAIN ring : \A o \in DOMAIN ring : ~ScoreGt(sc[o], sc[id])}

\* get_node with the map yielding its entries in the order ord (NoNode: a panic)
WrRingGetNode(ring, point, ord) ==
    IF WrGetNodePanics(ring, point) THEN NoNode
    ELSE LET top == WrTop(ring, point)
         IN  CHOOSE id \in top : \A o \in top : ord[o] <= ord[id]

\* the nodes get_node may return, over the iteration orders of the map
WrRingGetNodes(ring, point) ==
    IF WrGetNodePanics(ring, point) THEN {} ELSE WrTop(ring, point)

WrRingInsert(id, weight) ==
    /\ op.ok
    /\ wr_ring' = MapPut(wr_ring, id, weight)
    /\ op' = Call("insert_node", id, weight)
    /\ UNCHANGED <<wr_nodes, wr_points, notWr>>

WrRingRemove(id) ==
    /\ op.ok
    /\ wr_ring' = MapDel(wr_ring, id)
    /\ op' = Call("remove_node", id, Held(id \in DOMAIN wr_ring))
    /\ UNCHANGED <<wr_nodes, wr_points, notWr>>

WrRingGet(point) ==
    /\ op.ok
    /\ IF WrGetNodePanics(wr_ring, point)
           THEN op' = Panic("get_node", NoNode, point)
           ELSE \E node \in WrRingGetNodes(wr_ring, point) :
                    op' = Returned("get_node", NoNode, point, node)
    /\ UNCHANGED <<wrVars, notWr>>

\* ---------------------------------------------------------------- weighted_rendezvous::Client
WrMovers(points, id, weight) ==
    {p \in DOMAIN points : ScoreGt(WrRingScore(weight, WrHash(id, p)), points[p].score)}

WrMoveNodes(nodes, points, moved) ==
    [n \in DOMAIN nodes |-> nodes[n] \ {p \in moved : points[p].node = n}]

WrMovePoints(points, id, weight, moved) ==
    [p \in DOMAIN points |->
        IF p \in moved THEN [node |-> id, score |-> WrRingScore(weight, WrHash(id, p))]
                       ELSE points[p]]

WrClientInsertNode(id, weight) ==
    /\ op.ok
    /\ LET movers == WrMovers(wr_points, id, weight)
           orphans == {p \in movers : wr_points[p].node \notin DOMAIN wr_nodes}
       IN  /\ wr_ring' = MapPut(wr_ring, id, weight)
           /\ IF orphans = {}
                  THEN /\ wr_nodes' = MapPut(WrMoveNodes(wr_nodes, wr_points, movers),
                                             id, movers)
                       /\ wr_points' = WrMovePoints(wr_points, id, weight, movers)
                       /\ op' = Call("insert_node", id, weight)
                  ELSE \E done \in SUBSET (movers \ orphans) :
                           /\ wr_nodes' = WrMoveNodes(wr_nodes, wr_points, done)
                           /\ wr_points' = WrMovePoints(wr_points, id, weight, done)
                           /\ op' = Panic("insert_node", id, weight)
    /\ UNCHANGED notWr

\* the entry insert_point and remove_node store for a point given to new_node
WrEntry(ring, new_node, point) ==
    [node |-> new_node, score |-> WrClientScore(ring[new_node], WrHash(new_node, point))]

\* owner[p] is the node ring.get_node(p) returned in the loop of remove_node
WrReassignNodes(nodes, owner, moved) ==
    [n \in DOMAIN nodes |-> nodes[n] \cup {p \in moved : owner[p] = n}]

WrReassignPoints(points, ring, owner, moved) ==
    [p \in (DOMAIN points) \cup moved |->
        IF p \in moved THEN WrEntry(ring, owner[p], p) ELSE points[p]]

WrClientRemoveNode(id) ==
    /\ op.ok
    /\ LET ring == MapDel(wr_ring, id)
       IN  /\ wr_ring' = ring
           /\ IF DOMAIN ring = {}
                  THEN /\ op' = Panic("remove_node", id, Held(id \in DOMAIN wr_ring))
                       /\ UNCHANGED <<wr_nodes, wr_points>>
                  ELSE IF id \notin DOMAIN wr_nodes
                  THEN /\ op' = Call("remove_node", id, Held(id \in DOMAIN wr_ring))
                       /\ UNCHANGED <<wr_nodes, wr_points>>
                  ELSE \E ord \in IterOrders(DOMAIN ring) :
                         LET rest == MapDel(wr_nodes, id)
                             points == wr_nodes[id]
                             owner == [p \in points |-> WrRingGetNode(ring, p, ord)]
                             \* get_node panics, or the bucket of its node is missing
                             failing == {p \in points : owner[p] \notin DOMAIN rest}
                         IN  IF failing = {}
                                 THEN /\ wr_nodes' = WrReassignNodes(rest, owner, points)
                                      /\ wr_points' = WrReassignPoints(wr_points, ring, owner,
                                                                       points)
                                      /\ op' = Call("remove_node", id, Held(id \in DOMAIN wr_ring))
                                 ELSE \E done \in SUBSET (points \ failing) :
                                      /\ wr_nodes' = WrReassignNodes(rest, owner, done)
                                      /\ wr_points' = WrReassignPoints(wr_points, ring, owner,
                                                                       done)
                                      /\ op' = Panic("remove_node", id, Held(id \in DOMAIN wr_ring))
    /\ UNCHANGED notWr

WrClientInsertPoint(point) ==
    /\ op.ok
    /\ IF WrGetNodePanics(wr_ring, point)
           THEN /\ op' = Panic("insert_point", NoNode, point)
                /\ UNCHANGED wrVars
           ELSE \E new_node \in WrRingGetNodes(wr_ring, point) :
                  IF new_node \notin DOMAIN wr_nodes
                      THEN /\ op' = Panic("insert_point", NoNode, point)
                           /\ UNCHANGED wrVars
                      ELSE /\ wr_nodes' = MapPut(wr_nodes, new_node,
                                                 wr_nodes[new_node] \cup {point})
                           /\ wr_points' = MapPut(wr_points, point,
                                                  WrEntry(wr_ring, new_node, point))
                           /\ op' = Call("insert_point", NoNode, point)
                           /\ UNCHANGED wr_ring
    /\ UNCHANGED notWr

WrClientRemovePoint(point) ==
    /\ op.ok
    /\ IF WrGetNodePanics(wr_ring, point)
           THEN /\ op' = Panic("remove_point", NoNode, point)
                /\ UNCHANGED wrVars
           ELSE \E node \in WrRingGetNodes(wr_ring, point) :
                  IF node \notin DOMAIN wr_nodes
                      THEN /\ op' = Panic("remove_point", NoNode, point)
                           /\ UNCHANGED wrVars
                      ELSE /\ wr_nodes' = MapPut(wr_nodes, node, wr_nodes[node] \ {point})
                           /\ wr_points' = MapDel(wr_points, point)
                           /\ op' = Call("remove_point", NoNode, point)
                           /\ UNCHANGED wr_ring
    /\ UNCHANGED notWr

\* Client::get_node: self.ring.get_node(key)
WrClientGetNode(point) == WrRingGet(point)

\* ---------------------------------------------------------------- carp: f64 values
\* A non-negative f64 is NaN, +inf or a finite value v / Scale.
Scale == 100
RootMax == 4

Fx(v) == [k |-> "fin", v |-> v]
FxNaN == [k |-> "nan", v |-> 0]
FxInf == [k |-> "pinf", v |-> 0]
FxInt(i) == Fx(i * Scale)

\* A carp weight is NaNWeight (f64::NAN) or CarpWeight(whole, step): a weight
\* such as 0.5 (whole) raised by `step` times the distance to the next f64,
\* which is below f64::EPSILON while CarpEpsilon such steps are not
\* (0.5, 0.5000000000000001, 0.5000000000000002).  Different whole weights
\* differ by far more than f64::EPSILON.
NaNWeight == 0 - 1
CarpEpsilon == 2
CarpWeight(whole, step) == whole * CarpGrain + step
CarpWhole(w) == w \div CarpGrain
CarpStep(w) == w % CarpGrain

\* a weight in the arithmetic of rebalance, which does not resolve the steps
FxOfWeight(w) == IF w = NaNWeight THEN FxNaN ELSE FxInt(CarpWhole(w))

FxMul(a, b) ==
    IF a.k = "nan" \/ b.k = "nan" THEN FxNaN
    ELSE IF a.k = "pinf" THEN (IF b.k = "fin" /\ b.v = 0 THEN FxNaN ELSE FxInf)
    ELSE IF b.k = "pinf" THEN (IF a.v = 0 THEN FxNaN ELSE FxInf)
    ELSE Fx((a.v * b.v) \div Scale)

FxDiv(a, b) ==
    IF a.k = "nan" \/ b.k = "nan" THEN FxNaN
    ELSE IF a.k = "pinf" THEN (IF b.k = "pinf" THEN FxNaN ELSE FxInf)
    ELSE IF b.k = "pinf" THEN Fx(0)
    ELSE IF b.v = 0 THEN (IF a.v = 0 THEN FxNaN ELSE FxInf)
    ELSE Fx((a.v * Scale) \div b.v)

FxAdd(a, b) ==
    IF a.k = "nan" \/ b.k = "nan" THEN FxNaN
    ELSE IF a.k = "pinf" \/ b.k = "pinf" THEN FxInf
    ELSE Fx(a.v + b.v)

\* a - b for a >= b (the weights are sorted)
FxSub(a, b) ==
    IF a.k = "nan" \/ b.k = "nan" THEN FxNaN ELSE Fx(a.v - b.v)

\* a.powf(n) for an integer n >= 1
RECURSIVE FxPow(_, _)
FxPow(a, n) == IF n = 1 THEN a ELSE FxMul(a, FxPow(a, n - 1))

\* the largest r with r^n <= x; the roots rebalance takes stay below RootMax
IRoot(x, n) == CHOOSE r \in 0 .. (RootMax * Scale) : r ^ n <= x /\ (r + 1) ^ n > x

\* a.powf(1 / n) for an integer n >= 1
FxRoot(a, n) ==
    IF a.k # "fin" \/ n = 1 THEN a
    ELSE IF a.v < 0 THEN FxNaN
    ELSE Fx(IRoot(a.v * Scale ^ (n - 1), n))

FxGt(a, b) ==
    /\ a.k # "nan"
    /\ b.k # "nan"
    /\ \/ a.k = "pinf" /\ b.k = "fin"
       \/ a.k = "fin" /\ b.k = "fin" /\ a.v > b.v

\* ---------------------------------------------------------------- carp::Ring
\* Node::new, with the hash insert_node and with_hasher fill in
CarpNode(id, weight) ==
    [id |-> id, hash |-> GenHashNode(id), weight |-> weight, relative_weight |-> Fx(0)]

\* the loop of rebalance from index i - 1 on
RECURSIVE CarpRebalanceLoop(_, _, _)
CarpRebalanceLoop(nodes, i, product) ==
    IF i > Len(nodes) THEN nodes
    ELSE LET len == Len(nodes)
             rest == len - (i - 1)
             weight == FxOfWeight(nodes[i].weight)
             res == IF i = 1
                        THEN FxRoot(FxMul(FxInt(len), weight), len)
                        ELSE FxRoot(
                                 FxAdd(FxDiv(FxMul(FxInt(rest),
                                                   FxSub(weight,
                                                         FxOfWeight(nodes[i - 1].weight))),
                                             product),
                                       FxPow(nodes[i - 1].relative_weight, rest)),
                                 rest)
         IN  CarpRebalanceLoop([nodes EXCEPT ![i].relative_weight = res],
                               i + 1, FxMul(product, res))

CarpRebalance(nodes) ==
    LET done == CarpRebalanceLoop(nodes, 1, FxInt(1))
    IN  IF done = << >> THEN done
        ELSE LET max_relative_weight == done[Len(done)].relative_weight
             IN  [i \in 1 .. Len(done) |->
                     [done[i] EXCEPT !.relative_weight =
                                         FxDiv(done[i].relative_weight, max_relative_weight)]]

\* (n.weight - m.weight).abs() < f64::EPSILON
CarpNear(v, w) ==
    /\ v # NaNWeight
    /\ w # NaNWeight
    /\ CarpWhole(v) = CarpWhole(w)
    /\ CarpStep(v) - CarpStep(w) < CarpEpsilon
    /\ CarpStep(w) - CarpStep(v) < CarpEpsilon

\* the comparator of sort_by: weights that differ by less than EPSILON order by id
CarpBefore(n, m) ==
    IF CarpNear(n.weight, m.weight) THEN n.id < m.id ELSE n.weight < m.weight

\* partial_cmp(..).expect(..) panics when the sort compares a NaN weight
CarpSortPanics(nodes) ==
    /\ Len(nodes) >= 2
    /\ \E i \in 1 .. Len(nodes) : nodes[i].weight = NaNWeight

\* the orders a panicking sort may leave the vector in
CarpPermutations(nodes) ==
    {[i \in 1 .. Len(nodes) |-> nodes[f[i]]] :
        f \in {g \in [1 .. Len(nodes) -> 1 .. Len(nodes)] :
                  \A a, b \in 1 .. Len(nodes) : a # b => g[a] # g[b]}}

\* whether the comparator is a total order on the nodes (their ids differ)
CarpTotalOn(nodes) ==
    \A a, b, c \in 1 .. Len(nodes) :
        (CarpBefore(nodes[a], nodes[b]) /\ CarpBefore(nodes[b], nodes[c]))
            => CarpBefore(nodes[a], nodes[c])

\* sort_by: the sorted vector; with a NaN weight a panic; with a comparator
\* that is not a total order an unspecified order or a panic
CarpSortBy(nodes) ==
    IF CarpSortPanics(nodes)
        THEN {[ok |-> FALSE, nodes |-> p] : p \in CarpPermutations(nodes)}
    ELSE IF CarpTotalOn(nodes)
        THEN {[ok |-> TRUE, nodes |-> SortSeq(nodes, CarpBefore)]}
    ELSE {[ok |-> b, nodes |-> p] : b \in BOOLEAN, p \in CarpPermutations(nodes)}

CarpPosition(nodes, id) ==
    IF \E i \in 1 .. Len(nodes) : nodes[i].id = id
        THEN CHOOSE i \in 1 .. Len(nodes) : nodes[i].id = id
        ELSE 0

CarpInsertNode(id, weight) ==
    /\ op.ok
    /\ LET index == CarpPosition(carp_nodes, id)
           placed == IF index # 0
                         THEN [carp_nodes EXCEPT ![index] = CarpNode(id, weight)]
                         ELSE Append(carp_nodes, CarpNode(id, weight))
       IN  \E sorted \in CarpSortBy(placed) :
               IF sorted.ok
                   THEN /\ carp_nodes' = CarpRebalance(sorted.nodes)
                        /\ op' = Call("insert_node", id, weight)
                   ELSE /\ carp_nodes' = sorted.nodes
                        /\ op' = Panic("insert_node", id, weight)
    /\ carp_list' = << >>
    /\ UNCHANGED notCarp

\* remove_node that takes the position for granted
CarpRemoveNodeExpect(id) ==
    /\ op.ok
    /\ LET index == CarpPosition(carp_nodes, id)
       IN  IF index # 0
               THEN /\ carp_nodes' = CarpRebalance([i \in 1 .. (Len(carp_nodes) - 1) |->
                                                       IF i < index THEN carp_nodes[i]
                                                                    ELSE carp_nodes[i + 1]])
                    /\ op' = Call("remove_node", id, Held(TRUE))
               ELSE /\ carp_nodes' = carp_nodes
                    /\ op' = Panic("remove_node", id, Held(FALSE))
    /\ carp_list' = << >>
    /\ UNCHANGED notCarp

CarpRemoveNode(id) ==
    /\ op.ok
    /\ LET index == CarpPosition(carp_nodes, id)
       IN  carp_nodes' =
               IF index # 0
                   THEN CarpRebalance([i \in 1 .. (Len(carp_nodes) - 1) |->
                                          IF i < index THEN carp_nodes[i]
                                                       ELSE carp_nodes[i + 1]])
                   ELSE carp_nodes
    /\ op' = Call("remove_node", id, Held(CarpPosition(carp_nodes, id) # 0))
    /\ carp_list' = << >>
    /\ UNCHANGED notCarp

\* combine_hash(node.hash, point_hash) as f64 * node.relative_weight
CarpScore(node, point) ==
    FxMul(FxInt(CombineHash(node.hash, GenHashPoint(point))), node.relative_weight)

\* get_node: the node, or NoNode where the code panics
CarpRingGetNode(nodes, point) ==
    IF nodes = << >> THEN NoNode
    ELSE IF Len(nodes) >= 2 /\ \E i \in 1 .. Len(nodes) : CarpScore(nodes[i], point).k = "nan"
        THEN NoNode
    ELSE LET top == {i \in 1 .. Len(nodes) :
                        \A j \in 1 .. Len(nodes) :
                            ~FxGt(CarpScore(nodes[j], point), CarpScore(nodes[i], point))}
         IN  nodes[SetMax(top)].id   \* max_by keeps the last of the greatest

CarpGetNode(point) ==
    /\ op.ok
    /\ LET node == CarpRingGetNode(carp_nodes, point)
       IN  op' = IF node = NoNode THEN Panic("get_node", NoNode, point)
                                  ELSE Returned("get_node", NoNode, point, node)
    /\ carp_list' = << >>
    /\ UNCHANGED <<carp_nodes, notCarp>>

\* the deduplication without the reverse: the first occurrence is kept
CarpDedupFirst(list) ==
    LET first(id) == SetMin({i \in 1 .. Len(list) : list[i].id = id})
        kept == {i \in 1 .. Len(list) : i = first(list[i].id)}
        ById(n, m) == n.id < m.id
    IN  SortSeq([r \in 1 .. Cardinality(kept) |->
                    list[CHOOSE i \in kept :
                             Cardinality({j \in kept : j <= i}) = r]], ById)

\* with_hasher: reverse, sort_by_key(id), dedup_by_key(id) keep of every id its
\* last occurrence in the list, in ascending order of id
CarpDedup(list) ==
    LET last(id) == SetMax({i \in 1 .. Len(list) : list[i].id = id})
        kept == {i \in 1 .. Len(list) : i = last(list[i].id)}
        ById(n, m) == n.id < m.id
    IN  SortSeq([r \in 1 .. Cardinality(kept) |->
                    list[CHOOSE i \in kept :
                             Cardinality({j \in kept : j <= i}) = r]], ById)

\* Ring::with_hasher(hash_builder, nodes)
CarpWithHasher(list) ==
    LET nodes == CarpDedup([i \in 1 .. Len(list) |->
                               CarpNode(list[i][1], list[i][2])])
    IN  \E sorted \in CarpSortBy(nodes) :
            /\ carp_list = list
            /\ IF sorted.ok
                   THEN /\ carp_nodes = CarpRebalance(sorted.nodes)
                        /\ op = Call("new", NoNode, Len(list))
                   ELSE /\ carp_nodes = << >>
                        /\ op = Panic("new", NoNode, Len(list))

CarpLen(nodes) == Len(nodes)

CarpIter(nodes) == [i \in 1 .. Len(nodes) |-> <<nodes[i].id, nodes[i].weight>>]

\* ---------------------------------------------------------------- mpc::Ring
\* PRIME: the largest prime below the number of hash values
MpcPrime ==
    SetMax({q \in 2 .. HashMax : \A d \in 2 .. (q - 1) : q % d # 0})

\* get_hashes: the two hashes of a point
MpcGetHashes(point) == <<point % HashMod, ((point \div 2) + 1) % HashMod>>

MpcGetDistance(hash, next_hash) ==
    IF hash > next_hash THEN next_hash + (HashMax - hash) ELSE next_hash - hash

\* get_next_hash: NoKey where the code panics ("Error: empty ring.")
MpcGetNextHash(nodes, hash) == ConNextKey(nodes, hash)

MpcProbe(point, i) ==
    LET hashes == MpcGetHashes(point)
    IN  (hashes[1] + (((i * hashes[2]) % HashMod) % MpcPrime)) % HashMod

MpcPairLeq(a, b) == a[1] < b[1] \/ (a[1] = b[1] /\ a[2] <= b[2])

MpcRingGetNode(nodes, hash_count, point) ==
    IF DOMAIN nodes = {} THEN NoNode
    ELSE LET pairs == {<<MpcGetDistance(MpcProbe(point, i),
                                        MpcGetNextHash(nodes, MpcProbe(point, i))),
                         MpcGetNextHash(nodes, MpcProbe(point, i))>> :
                          i \in 0 .. (hash_count - 1)}
             hash == CHOOSE a \in pairs : \A b \in pairs : MpcPairLeq(a, b)
         IN  nodes[hash[2]]

\* no insert_node has been recorded for a round trip
MpcNoTrip == [state |-> "none", id |-> NoNode, nodes |-> EmptyMap]

\* Ring::new(hash_count): assert!(hash_count > 0)
MpcNew(hash_count) ==
    /\ mpc_nodes = EmptyMap
    /\ mpc_hash_count = hash_count
    /\ mpc_trip = MpcNoTrip
    /\ op = IF hash_count > 0 THEN Call("new", NoNode, hash_count)
                              ELSE Panic("new", NoNode, hash_count)

MpcInsertNode(id) ==
    /\ op.ok
    /\ mpc_nodes' = MapPut(mpc_nodes, GenHashNode(id), id)
    /\ mpc_trip' = [state |-> "inserted", id |-> id, nodes |-> mpc_nodes]
    /\ op' = Call("insert_node", id, NoNode)
    /\ UNCHANGED <<mpc_hash_count, notMpc>>

MpcRemoveNode(id) ==
    /\ op.ok
    /\ mpc_nodes' = MapDel(mpc_nodes, GenHashNode(id))
    /\ mpc_trip' = IF mpc_trip.state = "inserted" /\ mpc_trip.id = id
                       THEN [mpc_trip EXCEPT !.state = "removed"]
                       ELSE MpcNoTrip
    /\ op' = Call("remove_node", id, Held(\E k \in DOMAIN mpc_nodes : mpc_nodes[k] = id))
    /\ UNCHANGED <<mpc_hash_count, notMpc>>

MpcGetNode(point) ==
    /\ op.ok
    /\ LET node == MpcRingGetNode(mpc_nodes, mpc_hash_count, point)
       IN  op' = IF node = NoNode THEN Panic("get_node", NoNode, point)
                                  ELSE Returned("get_node", NoNode, point, node)
    /\ UNCHANGED <<mpcVars, notMpc>>

MpcLen(nodes) == Cardinality(DOMAIN nodes)

\* ---------------------------------------------------------------- maglev::Ring
\* The two SipHashers get_hashers derives (hashers[0] also hashes the keys),
\* reduced to HashMod values.
MagHash0(x) == (2 * x + (x \div 2)) % HashMod

MagHash1(x) == (x \div 2) % HashMod

\* Ring::new: capacity_hint = nodes.len() * 100
CapacityFactor == 100

\* usize::max_value(), the mark of a lookup slot no node has claimed
UnsetEntry == 0 - 1

\* a call that never returns
NoReturn == 0 - 2

Hang(name, id, arg) == [name |-> name, id |-> id, arg |-> arg, ok |-> FALSE, ret |-> NoReturn]

IsPrime(q) == q >= 2 /\ \A d \in 2 .. (q - 1) : q % d # 0

\* Sieve::new(limit) knows the primes up to an end that is at least limit
SieveEnds(limit) == limit .. (limit + SieveSlack)

\* faulty variant: the primes after `from`, leaving `from` itself out
PrimesAfterNext(end, from) ==
    IF \E q \in (from + 1) .. end : IsPrime(q)
        THEN CHOOSE q \in (from + 1) .. end :
                 IsPrime(q) /\ \A r \in (from + 1) .. (q - 1) : ~IsPrime(r)
        ELSE 0

\* primes_from(from).next() on a sieve that ends at `end`: 0 stands for None
PrimesFromNext(end, from) ==
    IF \E q \in from .. end : IsPrime(q)
        THEN CHOOSE q \in from .. end : IsPrime(q) /\ \A r \in from .. (q - 1) : ~IsPrime(r)
        ELSE 0

\* the values m can take in populate; 0 where unwrap() panics
MagCapacities(capacity_hint) ==
    {PrimesFromNext(end, capacity_hint) : end \in SieveEnds(capacity_hint * 2)}

\* faulty variant: a skip of 0 .. m - 1, so that a node may have one preference only
MagPermutationAnySkip(node, m, i) ==
    LET offset == MagHash0(node) % m
        skip == MagHash1(node) % m
    IN  (offset + i * skip) % m

\* permutation[j][i] for the node at index j
MagPermutation(node, m, i) ==
    LET offset == MagHash0(node) % m
        skip == (MagHash1(node) % (m - 1)) + 1
    IN  (offset + i * skip) % m

\* faulty variant: every pick goes to the first list entry
MagTurnFirst(t, n) == 1

\* the list entry (from 1) whose turn the pick number t is: `while i < m`
\* around `for j in 0..n`
MagTurn(t, n) == (t % n) + 1

\* one pass of the body of `for j in 0..n` for the pick number t (i = t before
\* the pass); next and entry are indexed from 1
MagPick(st, nodes, m, t) ==
    IF ~st.ok THEN st
    ELSE LET j == MagTurn(t, Len(nodes))
             claimed(k) == st.entry[MagPermutation(nodes[j], m, k) + 1] # UnsetEntry
             rest == st.next[j] .. (m - 1)
         IN  IF \A k \in rest : claimed(k)
                 THEN [st EXCEPT !.ok = FALSE]       \* permutation[j][m]: out of bounds
                 ELSE LET k == CHOOSE k \in rest :
                                   ~claimed(k) /\ \A r \in st.next[j] .. (k - 1) : claimed(r)
                          c == MagPermutation(nodes[j], m, k)
                      IN  [next |-> [st.next EXCEPT ![j] = k + 1],
                           entry |-> [st.entry EXCEPT ![c + 1] = j - 1],
                           ok |-> TRUE]

\* the picks lo .. hi of populate in order
RECURSIVE MagFill(_, _, _, _, _)
MagFill(st, nodes, m, lo, hi) ==
    IF lo = hi THEN MagPick(st, nodes, m, lo)
    ELSE LET mid == (lo + hi) \div 2
             left == MagFill(st, nodes, m, lo, mid)
         IN  IF left.ok THEN MagFill(left, nodes, m, mid + 1, hi) ELSE left

\* populate for n > 0 nodes and a table of m slots: the result has ok = FALSE
\* where the code panics
MagPopulate(nodes, m) ==
    MagFill([next |-> [j \in 1 .. Len(nodes) |-> 0],
             entry |-> [c \in 1 .. m |-> UnsetEntry],
             ok |-> TRUE],
            nodes, m, 0, m - 1)

NoOld == [state |-> "none", nodes |-> << >>, lookup |-> << >>, removed |-> NoNode]

\* Ring::with_capacity_hint(nodes, capacity_hint), called as `name`: the ring
\* and the outcome it leaves in the variables nodes_, lookup_ and op_
MagConstruct(name, nodes, capacity_hint, nodes_, lookup_, op_) ==
    \E m \in MagCapacities(capacity_hint) :
        IF m = 0
            THEN \* .next().unwrap() on None
                 /\ nodes_ = << >>
                 /\ lookup_ = << >>
                 /\ op_ = Panic(name, Len(nodes), capacity_hint)
        ELSE IF nodes = << >>
            THEN \* `while i < m` never advances i when n = 0
                 /\ nodes_ = << >>
                 /\ lookup_ = << >>
                 /\ op_ = Hang(name, Len(nodes), capacity_hint)
        ELSE LET filled == MagPopulate(nodes, m)
             IN  IF filled.ok
                     THEN /\ nodes_ = nodes
                          /\ lookup_ = filled.entry
                          /\ op_ = Call(name, Len(nodes), capacity_hint)
                     ELSE /\ nodes_ = << >>
                          /\ lookup_ = << >>
                          /\ op_ = Panic(name, Len(nodes), capacity_hint)

\* Ring::with_capacity_hint as the first call of the program
MagWithCapacityHint(nodes, capacity_hint) ==
    /\ MagConstruct("with_capacity_hint", nodes, capacity_hint, mag_nodes, mag_lookup, op)
    /\ mag_old = NoOld

\* Ring::new(nodes): assert!(!nodes.is_empty())
MagNew(nodes) ==
    /\ mag_old = NoOld
    /\ IF nodes = << >>
           THEN /\ mag_nodes = << >>
                /\ mag_lookup = << >>
                /\ op = Panic("new", 0, 0)
           ELSE MagConstruct("new", nodes, Len(nodes) * CapacityFactor,
                             mag_nodes, mag_lookup, op)

\* nodes() and capacity()
MagNodes(nodes) == Len(nodes)

MagCapacity(lookup) == Len(lookup)

\* get_node(key): self.nodes[self.lookup[hash % capacity]]
MagRingGetNode(nodes, lookup, key) ==
    nodes[lookup[(MagHash0(key) % MagCapacity(lookup)) + 1] + 1]

MagGetNode(key) ==
    /\ op.ok
    /\ op' = Returned("get_node", NoNode, key, MagRingGetNode(mag_nodes, mag_lookup, key))
    /\ UNCHANGED <<magVars, notMag>>

\* faulty variant: the regeneration through Ring::new, which takes its
\* capacity from the number of nodes
MagRebuildNew(x) ==
    /\ op.ok
    /\ \E i \in 1 .. Len(mag_nodes) : mag_nodes[i] = x
    /\ LET keep(n) == n # x
           rest == SelectSeq(mag_nodes, keep)
       IN  MagConstruct("with_capacity_hint", rest, Len(rest) * CapacityFactor,
                        mag_nodes', mag_lookup', op')
    /\ mag_old' = [state |-> "rebuilt", nodes |-> mag_nodes, lookup |-> mag_lookup,
                   removed |-> x]
    /\ UNCHANGED notMag

\* the regeneration the documentation of with_capacity_hint and capacity()
\* prescribes (test_get_node, test_capacity): a new ring from the nodes other
\* than x, with capacity_hint = capacity() of the ring it replaces
MagRebuild(x) ==
    /\ op.ok
    /\ \E i \in 1 .. Len(mag_nodes) : mag_nodes[i] = x
    /\ LET keep(n) == n # x
       IN  MagConstruct("with_capacity_hint", SelectSeq(mag_nodes, keep),
                        MagCapacity(mag_lookup), mag_nodes', mag_lookup', op')
    /\ mag_old' = [state |-> "rebuilt", nodes |-> mag_nodes, lookup |-> mag_lookup,
                   removed |-> x]
    /\ UNCHANGED notMag

\* ---------------------------------------------------------------- jump::Ring
\* The 64-bit hash is reduced to JumpBits bits: h >> 33 keeps the top
\* JumpBits - JumpShift bits and 1i64 << 31 becomes JumpScale.
JumpBits == 5
JumpShift == 2
JumpHashMod == 2 ^ JumpBits
JumpScale == 2 ^ (JumpBits - JumpShift)
\* 2_862_933_555_777_941_757 reduced mod 2^JumpBits
JumpMul == 29
\* 2^32 for the nodes of the model
JumpU32Mod == 16
\* the numerators from which on an f64 quotient is rounded to an integer
JumpMantissa == 32

\* gen_hash(&self.hash_builder, key)
JumpHash(key) == (7 * key + 3) % JumpHashMod

\* h.wrapping_mul(2_862_933_555_777_941_757).wrapping_add(1)
JumpStep(h) == (h * JumpMul + 1) % JumpHashMod

\* the quotient with the + 1 of `i.wrapping_add(1)` left out
JumpNextNoIncrement(i, h) == {(i * JumpScale) \div ((h \div (2 ^ JumpShift)) + 1)}

\* ((i + 1) as f64 * (1 << 31) as f64 / ((h >> 33) + 1) as f64) as i64: the
\* truncated quotient; a large numerator gives a quotient rounded to a
\* neighbouring integer, never below (i + 1) (the division is monotone and
\* the divisor is at most 1 << 31)
JumpNext(i, h) ==
    LET a == (i + 1) * JumpScale
        q == a \div ((h \div (2 ^ JumpShift)) + 1)
    IN  IF a < JumpMantissa THEN {q}
        ELSE {x \in (q - 1) .. (q + 1) : x >= i + 1}

\* faulty variant: a cast to a type too narrow for the ordinals
JumpAsNarrow(i) == i % (JumpU32Mod \div 4)

\* i as u32
JumpAsU32(i) == i % JumpU32Mod

\* the while loop of get_node: the values it can return, NoReturn among them
\* when the loop can pass through more (h, j) states than there are
RECURSIVE JumpLoop(_, _, _, _, _)
JumpLoop(nodes, h, i, j, fuel) ==
    IF ~(j < nodes) THEN {JumpAsU32(i)}
    ELSE IF fuel = 0 THEN {NoReturn}
    ELSE UNION {JumpLoop(nodes, JumpStep(h), j, next, fuel - 1) :
                    next \in JumpNext(j, JumpStep(h))}

JumpRingGetNode(nodes, key) ==
    JumpLoop(nodes, JumpHash(key), 0 - 1, 0, JumpHashMod * (nodes + 1))

\* Ring::with_hasher(hash_builder, nodes): assert!(nodes >= 1)
JumpWithHasher(nodes) ==
    /\ jump_nodes = nodes
    /\ op = IF nodes >= 1 THEN Call("with_hasher", NoNode, nodes)
                          ELSE Panic("with_hasher", NoNode, nodes)

JumpGetNode(key) ==
    /\ op.ok
    /\ \E ret \in JumpRingGetNode(jump_nodes, key) :
          op' = IF ret = NoReturn THEN Hang("get_node", NoNode, key)
                                  ELSE Returned("get_node", NoNode, key, ret)
    /\ UNCHANGED <<jumpVars, notJump>>

\* Ring::nodes
JumpNodes(nodes) == nodes

\* ---------------------------------------------------------------- specifications
InitCon ==
    /\ con_nodes = EmptyMap
    /\ con_replicas = EmptyMap
    /\ con_data = EmptyMap
    /\ con_trip = NoTrip

InitRdv ==
    /\ rdv_ring = EmptyMap
    /\ rdv_nodes = EmptyMap
    /\ rdv_points = EmptyMap

InitWr ==
    /\ wr_ring = EmptyMap
    /\ wr_nodes = EmptyMap
    /\ wr_points = EmptyMap

InitCarp == carp_nodes = << >> /\ carp_list = << >>

InitMpc == mpc_nodes = EmptyMap /\ mpc_hash_count = 1 /\ mpc_trip = MpcNoTrip

\* no maglev ring has been constructed
InitMag == mag_nodes = << >> /\ mag_lookup = << >> /\ mag_old = NoOld

\* no jump ring has been constructed
InitJump == jump_nodes = 0

\* every ring and client as its constructor leaves it
InitState ==
    /\ op = Call("new", NoNode, NoNode)
    /\ InitCon
    /\ InitRdv
    /\ InitWr
    /\ InitCarp
    /\ InitMpc
    /\ InitMag
    /\ InitJump

InitConRing == sys = "consistent::Ring" /\ InitState

NextConRing ==
    \/ \E id \in Nodes, replicas \in ReplicaCounts : ConRingInsert(id, replicas)
    \/ \E id \in Nodes : ConRingRemove(id)
    \/ \E point \in Keys : ConRingGet(point)

SpecConRing == InitConRing /\ [][NextConRing]_vars

InitConClient == sys = "consistent::Client" /\ InitState

NextConClient ==
    \/ \E id \in Nodes, replicas \in ReplicaCounts : ConClientInsertNode(id, replicas)
    \/ \E id \in Nodes : ConClientRemoveNode(id)
    \/ \E point \in Points : ConClientInsertPoint(point)
    \/ \E point \in Points : ConClientRemovePoint(point)
    \/ \E point \in Points : ConClientGetNode(point)

SpecConClient == InitConClient /\ [][NextConClient]_vars

InitRdvClient == sys = "rendezvous::Client" /\ InitState

NextRdvClient ==
    \/ \E id \in Nodes, replicas \in ReplicaCounts : RdvClientInsertNode(id, replicas)
    \/ \E id \in Nodes : RdvClientRemoveNode(id)
    \/ \E point \in Points : RdvClientInsertPoint(point)
    \/ \E point \in Points : RdvClientRemovePoint(point)
    \/ \E point \in Points : RdvClientGetNode(point)

SpecRdvClient == InitRdvClient /\ [][NextRdvClient]_vars

InitWrClient == sys = "weighted_rendezvous::Client" /\ InitState

NextWrClient ==
    \/ \E id \in Nodes, weight \in ClientWeights : WrClientInsertNode(id, weight)
    \/ \E id \in Nodes : WrClientRemoveNode(id)
    \/ \E point \in Points : WrClientInsertPoint(point)
    \/ \E point \in Points : WrClientRemovePoint(point)
    \/ \E point \in Points : WrClientGetNode(point)

SpecWrClient == InitWrClient /\ [][NextWrClient]_vars

\* the weights a carp node is given: the whole weights, the weights one and
\* more steps above the whole weight 1, and f64::NAN
CarpWeights ==
    {CarpWeight(whole, 0) : whole \in Weights}
        \cup {CarpWeight(1, step) : step \in 0 .. (CarpGrain - 1)}
        \cup {NaNWeight}

\* the node lists a carp ring is constructed from
CarpLists ==
    UNION {[1 .. n -> Nodes \X CarpWeights] : n \in 0 .. MaxListLen}

InitCarpRing ==
    /\ sys = "carp::Ring"
    /\ InitCon /\ InitRdv /\ InitWr /\ InitMpc /\ InitMag /\ InitJump
    /\ \E list \in CarpLists : CarpWithHasher(list)

NextCarpRing ==
    \/ \E id \in Nodes, weight \in CarpWeights : CarpInsertNode(id, weight)
    \/ \E id \in Nodes : CarpRemoveNode(id)
    \/ \E point \in Keys : CarpGetNode(point)

SpecCarpRing == InitCarpRing /\ [][NextCarpRing]_vars

InitMpcRing ==
    /\ sys = "mpc::Ring"
    /\ InitCon /\ InitRdv /\ InitWr /\ InitCarp /\ InitMag /\ InitJump
    /\ \E hash_count \in 0 .. MaxProbes : MpcNew(hash_count)

NextMpcRing ==
    \/ \E id \in Nodes : MpcInsertNode(id)
    \/ \E id \in Nodes : MpcRemoveNode(id)
    \/ \E point \in Keys : MpcGetNode(point)

SpecMpcRing == InitMpcRing /\ [][NextMpcRing]_vars

InitRdvRing == sys = "rendezvous::Ring" /\ InitState

NextRdvRing ==
    \/ \E id \in Nodes, replicas \in ReplicaCounts : RdvRingInsert(id, replicas)
    \/ \E id \in Nodes : RdvRingRemove(id)
    \/ \E point \in Keys : RdvRingGet(point)

SpecRdvRing == InitRdvRing /\ [][NextRdvRing]_vars

InitWrRing == sys = "weighted_rendezvous::Ring" /\ InitState

NextWrRing ==
    \/ \E id \in Nodes, weight \in Weights : WrRingInsert(id, weight)
    \/ \E id \in Nodes : WrRingRemove(id)
    \/ \E point \in Keys : WrRingGet(point)

SpecWrRing == InitWrRing /\ [][NextWrRing]_vars

\* the node lists a maglev ring is constructed from
MagLists == UNION {[1 .. n -> Nodes] : n \in 0 .. MaxMagLen}

InitMagRing ==
    /\ sys = "maglev::Ring"
    /\ InitCon /\ InitRdv /\ InitWr /\ InitCarp /\ InitMpc /\ InitJump
    /\ \E nodes \in MagLists :
          \/ MagNew(nodes)
          \/ \E capacity_hint \in 0 .. MaxHint : MagWithCapacityHint(nodes, capacity_hint)

NextMagRing ==
    \/ \E key \in Keys : MagGetNode(key)
    \/ \E x \in Nodes : MagRebuild(x)

SpecMagRing == InitMagRing /\ [][NextMagRing]_vars

InitJumpRing ==
    /\ sys = "jump::Ring"
    /\ InitCon /\ InitRdv /\ InitWr /\ InitCarp /\ InitMpc /\ InitMag
    /\ \E nodes \in 0 .. MaxJumpNodes : JumpWithHasher(nodes)

NextJumpRing == \E key \in 0 .. MaxJumpKey : JumpGetNode(key)

SpecJumpRing == InitJumpRing /\ [][NextJumpRing]_vars

\* the five plain rings that support removal: the program drives one of them
Rings == {"carp::Ring", "consistent::Ring", "mpc::Ring", "rendezvous::Ring",
          "weighted_rendezvous::Ring"}

InitRings ==
    \/ InitCarpRing
    \/ InitConRing
    \/ InitMpcRing
    \/ InitRdvRing
    \/ InitWrRing

NextRings ==
    \/ sys = "carp::Ring" /\ NextCarpRing
    \/ sys = "consistent::Ring" /\ NextConRing
    \/ sys = "mpc::Ring" /\ NextMpcRing
    \/ sys = "rendezvous::Ring" /\ NextRdvRing
    \/ sys = "weighted_rendezvous::Ring" /\ NextWrRing

SpecRings == InitRings /\ [][NextRings]_vars

\* the three tracking clients: the program drives one of them
Clients == {"consistent::Client", "rendezvous::Client", "weighted_rendezvous::Client"}

InitClients == sys \in Clients /\ InitState

NextClients ==
    \/ sys = "consistent::Client" /\ NextConClient
    \/ sys = "rendezvous::Client" /\ NextRdvClient
    \/ sys = "weighted_rendezvous::Client" /\ NextWrClient

SpecClients == InitClients /\ [][NextClients]_vars

\* every ring and every tracking client: the program drives one of them
InitAll == InitRings \/ InitClients

NextAll ==
    \/ sys \in Rings /\ NextRings
    \/ sys \in Clients /\ NextClients

SpecAll == InitAll /\ [][NextAll]_vars

\* ================================================================ claims
\* k is the wheel successor of hash value h among keys: the smallest key >= h,
\* or the smallest key of all when no key is >= h
IsSuccessor(keys, h, k) ==
    /\ k \in keys
    /\ \/ k >= h /\ \A j \in keys : j >= h => k <= j
       \/ (\A j \in keys : j < h) /\ \A j \in keys : k <= j

\* C1: consistent::Client: every tracked point is stored in the data bucket
\* of the wheel successor of its hash, and a node that reports the point in
\* get_points is the node ring.get_node returns for it.
C1_PointsAtSuccessor ==
    op.ok =>
        /\ \A k \in DOMAIN con_data : \A p \in con_data[k] :
              IsSuccessor(DOMAIN con_nodes, GenHashPoint(p), k)
        /\ \A id \in DOMAIN con_replicas :
              \A p \in ConGetPoints(con_data, con_replicas, id) :
                  ConRingGetNode(con_nodes, p) = id

\* C5: consistent::Client: get_points of two distinct present nodes share no
\* point, and every tracked point is reported by exactly one present node.
C5_BucketsDisjoint ==
    op.ok =>
        /\ \A a, b \in DOMAIN con_replicas :
              a # b => ConGetPoints(con_data, con_replicas, a)
                           \cap ConGetPoints(con_data, con_replicas, b) = {}
        /\ \A p \in ConTracked(con_data) :
              Cardinality({id \in DOMAIN con_replicas :
                              p \in ConGetPoints(con_data, con_replicas, id)}) = 1

\* C6: consistent::Ring closure: a node get_node returns is present in the
\* ring (iter() yields it, len() counts it).
C6_GetNodeReturnsPresentNode ==
    (sys = "consistent::Ring" /\ op.name = "get_node" /\ op.ok) =>
        /\ op.ret \in {e[1] : e \in ConRingIter(con_replicas)}
        /\ ConRingLen(con_replicas) >= 1

\* C7: consistent::Ring get_node(point) returns the node stored at the wheel
\* successor of hash(point): the smallest key >= the hash, else the smallest key.
C7_GetNodeIsSuccessor ==
    (sys = "consistent::Ring" /\ op.name = "get_node" /\ op.ok) =>
        \E k \in DOMAIN con_nodes :
            /\ IsSuccessor(DOMAIN con_nodes, GenHashPoint(op.arg), k)
            /\ con_nodes[k] = op.ret

\* C7 witness: a lookup that wrapped around a wheel of two or more keys
C7_Witness ==
    /\ sys = "consistent::Ring"
    /\ op.name = "get_node"
    /\ op.ok
    /\ Cardinality(DOMAIN con_nodes) >= 2
    /\ \A k \in DOMAIN con_nodes : k < GenHashPoint(op.arg)

\* the round trip remove_node(n); insert_node(n, R) has just completed
RoundTripDone == con_trip.state = "restored"

\* get_node agrees before and after for a point of any hash
RoundTripSameLookups ==
    \A h \in HashSpace :
        ConRingGetNextNode(con_nodes, h) = ConRingGetNextNode(con_trip.nodes, h)

\* before the removal every replica position of n held n in the wheel
RoundTripOwnedAll ==
    \A k \in ReplicaHashes(con_trip.id, con_trip.replicas) :
        k \in DOMAIN con_trip.nodes /\ con_trip.nodes[k] = con_trip.id

\* C8 as stated: remove_node(n) then insert_node(n, R) restores get_node for
\* every point, also when a replica position of n coincides with another node's.
C8_RoundTripRestoresLookups == RoundTripDone => RoundTripSameLookups

\* C8 amended: the round trip restores get_node for every point when, before
\* the removal, each of n's R replica positions held n in the wheel.
C8_RoundTripRestoresOwned == (RoundTripDone /\ RoundTripOwnedAll) => RoundTripSameLookups

\* C8 witness: a completed round trip of a node that owned its positions, in
\* a ring that holds another node
C8_Witness ==
    /\ RoundTripDone
    /\ RoundTripOwnedAll
    /\ con_trip.replicas = MaxReplicas
    /\ Cardinality(DOMAIN con_replicas) >= 2

\* C2: rendezvous::Client: every tracked point lies in the bucket of the node
\* ring.get_node returns for it, and that node is the one the points map records.
C2_PointsAtRingOwner ==
    op.ok =>
        \A p \in DOMAIN rdv_points :
            LET node == RdvRingGetNode(rdv_ring, p)
            IN  /\ node \in DOMAIN rdv_nodes
                /\ p \in rdv_nodes[node]
                /\ rdv_points[p].node = node

\* C3: weighted_rendezvous::Client: every tracked point lies in the bucket of a
\* node ring.get_node may return for it (a node with the greatest score).
C3_PointsAtGreatestScore ==
    op.ok =>
        \A p \in DOMAIN wr_points :
            \E node \in WrRingGetNodes(wr_ring, p) :
                node \in DOMAIN wr_nodes /\ p \in wr_nodes[node]

\* the points map and the buckets of a client describe the same assignment
BucketsMatchPoints(nodes, points) ==
    /\ \A p \in DOMAIN points :
          /\ points[p].node \in DOMAIN nodes
          /\ \A n \in DOMAIN nodes : p \in nodes[n] <=> n = points[p].node
    /\ \A n \in DOMAIN nodes : nodes[n] \subseteq DOMAIN points

\* C4: rendezvous::Client and weighted_rendezvous::Client: each point of the
\* points map is in the bucket of its recorded node and in no other bucket,
\* and every member of a bucket is in the points map.
C4_BucketsMatchPoints ==
    op.ok => /\ BucketsMatchPoints(rdv_nodes, rdv_points)
             /\ BucketsMatchPoints(wr_nodes, wr_points)

\* remove_node(id) was called with an id the ring or client did not hold
RemovedUnknownNode == op.name = "remove_node" /\ op.arg = Held(FALSE)

\* C9: each tracking client: remove_node(id) of an id that is not a node of
\* the client panics, whether the client has no nodes or holds other nodes.
C9_RemoveUnknownNodePanics ==
    (sys \in Clients /\ RemovedUnknownNode) => ~op.ok

ClientNodes ==
    IF sys = "consistent::Client" THEN DOMAIN con_replicas
    ELSE IF sys = "rendezvous::Client" THEN DOMAIN rdv_nodes
    ELSE DOMAIN wr_nodes

\* this step is remove_node(id) of a node the tracking client holds
RemovesPresentNode ==
    /\ sys \in Clients
    /\ op'.name = "remove_node"
    /\ op'.id \in ClientNodes

\* C11: each tracking client: remove_node(id) of the only node of the client
\* panics, with or without tracked points, and remove_node(id) of a present
\* node returns normally whenever another node remains.
C11_RemoveOnlyNodeFails ==
    [][RemovesPresentNode => (op'.ok <=> ClientNodes # {op'.id})]_vars

\* the nodes the driven plain ring holds (what len() counts)
RingNodes ==
    IF sys = "carp::Ring" THEN {carp_nodes[i].id : i \in 1 .. Len(carp_nodes)}
    ELSE IF sys = "consistent::Ring" THEN DOMAIN con_replicas
    ELSE IF sys = "mpc::Ring" THEN {mpc_nodes[k] : k \in DOMAIN mpc_nodes}
    ELSE IF sys = "rendezvous::Ring" THEN DOMAIN rdv_ring
    ELSE DOMAIN wr_ring

\* the points the driven tracking client tracks
ClientPoints ==
    IF sys = "consistent::Client" THEN ConTracked(con_data)
    ELSE IF sys = "rendezvous::Client" THEN DOMAIN rdv_points
    ELSE DOMAIN wr_points

\* the last call was a lookup or a point operation on a ring or client that
\* holds no nodes (none of these calls changes the nodes)
CalledOnEmpty ==
    \/ sys \in Clients /\ ClientNodes = {}
          /\ op.name \in {"get_node", "insert_point", "remove_point"}
    \/ sys \in Rings /\ RingNodes = {} /\ op.name = "get_node"

\* C12: on a tracking client that holds no nodes, get_node, insert_point and
\* remove_point panic and no point is tracked; get_node on a plain ring that
\* holds no nodes (never filled, or emptied by removals) panics.
C12_EmptyLookupsFail ==
    CalledOnEmpty => (~op.ok /\ (sys \in Clients => ClientPoints = {}))

\* get_points(id) on the driven tracking client
ClientGetPoints(id) ==
    IF sys = "consistent::Client" THEN ConGetPoints(con_data, con_replicas, id)
    ELSE IF sys = "rendezvous::Client" THEN RdvGetPoints(rdv_nodes, id)
    ELSE RdvGetPoints(wr_nodes, id)

\* this step is a remove_point(p) that returned, on a client that holds a node
\* and tracks p
RemovesTrackedPoint ==
    /\ sys \in Clients
    /\ ClientNodes # {}
    /\ op'.name = "remove_point"
    /\ op'.ok
    /\ op'.arg \in ClientPoints

\* C13: each tracking client with at least one node: after remove_point(p)
\* returns for a tracked point p, get_points of no node contains p (and the
\* points map of the rendezvous clients does not hold p), and get_points of
\* every node is unchanged for all other points.
C13_RemovePointForgetsPoint ==
    [][RemovesTrackedPoint =>
          /\ ClientNodes' = ClientNodes
          /\ op'.arg \notin ClientPoints'
          /\ \A id \in ClientNodes :
                /\ op'.arg \notin ClientGetPoints(id)'
                /\ ClientGetPoints(id)' \ {op'.arg} = ClientGetPoints(id) \ {op'.arg}]_vars

\* C14: rendezvous::Client: the score stored for each tracked point equals the
\* maximum, over the current replica hashes of the point's recorded owner, of
\* combine_hash(replica hash, hash of the point).
C14_StoredScoreIsOwnerMax ==
    (sys = "rendezvous::Client" /\ op.ok) =>
        \A p \in DOMAIN rdv_points :
            /\ rdv_points[p].node \in DOMAIN rdv_ring
            /\ rdv_points[p].score = RdvMaxScore(rdv_ring[rdv_points[p].node], p)

\* a maglev ring was rebuilt without a node and the construction returned
MagRebuilt == sys = "maglev::Ring" /\ mag_old.state = "rebuilt" /\ mag_nodes # << >>

\* the node a lookup slot (from 1) of a table maps to
MagSlotNode(nodes, lookup, c) == nodes[lookup[c] + 1]

\* slot c of the replaced table mapped to a node that survives
MagSurvivorSlot(c) == MagSlotNode(mag_old.nodes, mag_old.lookup, c) # mag_old.removed

\* slot c maps to the same node in the replaced and in the rebuilt table
MagSlotKept(c) ==
    MagSlotNode(mag_nodes, mag_lookup, c) = MagSlotNode(mag_old.nodes, mag_old.lookup, c)

\* slot c is the first preference (the offset) of the node it mapped to
MagFirstPreference(c) ==
    MagPermutation(MagSlotNode(mag_old.nodes, mag_old.lookup, c), Len(mag_old.lookup), 0) = c - 1

\* C15 as stated: maglev::Ring rebuilt without x with capacity_hint =
\* capacity(): every slot that mapped to a surviving node maps to the same
\* node in the rebuilt table.
C15_RebuildKeepsSurvivorSlots ==
    MagRebuilt =>
        /\ MagCapacity(mag_lookup) = MagCapacity(mag_old.lookup)
        /\ \A c \in 1 .. Len(mag_old.lookup) : MagSurvivorSlot(c) => MagSlotKept(c)

\* C15 amended: the rebuilt table has the same capacity and maps every slot
\* to a surviving node; a slot that mapped to a surviving node maps to the
\* same node when the slot is that node's first preference or when a single
\* node survives.
C15_RebuildKeepsFirstPreferences ==
    MagRebuilt =>
        /\ MagCapacity(mag_lookup) = MagCapacity(mag_old.lookup)
        /\ \A c \in 1 .. Len(mag_lookup) :
              MagSlotNode(mag_nodes, mag_lookup, c) # mag_old.removed
        /\ \A c \in 1 .. Len(mag_old.lookup) :
              (/\ MagSurvivorSlot(c)
               /\ \/ MagFirstPreference(c)
                  \/ \A i, j \in 1 .. Len(mag_nodes) : mag_nodes[i] = mag_nodes[j])
                  => MagSlotKept(c)

\* C15 witness: a rebuild that left two distinct nodes, kept a surviving
\* node's first preference and moved another of its slots
C15_Witness ==
    /\ MagRebuilt
    /\ \E i, j \in 1 .. Len(mag_nodes) : mag_nodes[i] # mag_nodes[j]
    /\ \E c, e \in 1 .. Len(mag_old.lookup) :
          /\ MagSurvivorSlot(c) /\ MagFirstPreference(c) /\ MagSlotKept(c)
          /\ MagSurvivorSlot(e) /\ ~MagSlotKept(e)

\* the last call constructed a maglev ring from `n` nodes
MagConstructedFrom(n) ==
    /\ sys = "maglev::Ring"
    /\ op.name \in {"new", "with_capacity_hint"}
    /\ op.id = n

\* C16: constructing a maglev::Ring from an empty node list panics, through
\* Ring::new and through Ring::with_capacity_hint: it neither returns a ring
\* nor runs forever.
C16_EmptyListFails ==
    MagConstructedFrom(0) => (~op.ok /\ op.ret # NoReturn)

\* C17: maglev::Ring from a non-empty node list and capacity_hint >= 1:
\* capacity() is the smallest prime >= capacity_hint; Ring::new passes
\* 100 * the number of nodes (three nodes give 307); a rebuild with
\* capacity_hint = capacity() has the same capacity.
C17_CapacityIsNextPrime ==
    (\E n \in 1 .. MaxMagLen : MagConstructedFrom(n) /\ op.arg >= 1) =>
        /\ op.ok
        /\ IsPrime(MagCapacity(mag_lookup))
        /\ MagCapacity(mag_lookup) >= op.arg
        /\ \A q \in op.arg .. (MagCapacity(mag_lookup) - 1) : ~IsPrime(q)
        /\ op.name = "new" => op.arg = 100 * op.id
        /\ (op.name = "new" /\ op.id = 3) => MagCapacity(mag_lookup) = 307
        /\ mag_old.state = "rebuilt" => MagCapacity(mag_lookup) = MagCapacity(mag_old.lookup)

\* C17 witness: a ring Ring::new built from three nodes, of capacity 307, has
\* been rebuilt without one of them
C17_Witness ==
    /\ MagConstructedFrom(2)
    /\ op.ok
    /\ mag_old.state = "rebuilt"
    /\ Len(mag_old.nodes) = 3
    /\ MagCapacity(mag_old.lookup) = 307

\* the last call was a weighted_rendezvous::Ring::get_node that returned
WrRingGot ==
    /\ sys = "weighted_rendezvous::Ring"
    /\ op.name = "get_node"
    /\ op.ok

\* C18: weighted_rendezvous::Ring::get_node(p) depends only on the (node,
\* weight) pairs of the ring and on p: whatever order the map yields its
\* entries in, the same node is returned, also when several nodes have equal
\* scores for p; the tie goes to the node the ids decide (the smallest).
C18_GetNodeIsDetermined ==
    WrRingGot =>
        /\ \A ord \in IterOrders(DOMAIN wr_ring) : WrRingGetNode(wr_ring, op.arg, ord) = op.ret
        /\ \A o \in WrTop(wr_ring, op.arg) : op.ret <= o

\* C19: weighted_rendezvous::Ring::get_node never returns a node of weight 0
\* while the ring holds a node of positive weight, whatever the combined
\* hashes are (0 and the largest value included).
C19_ZeroWeightNeverChosen ==
    (WrRingGot /\ \E id \in DOMAIN wr_ring : wr_ring[id] > 0) => wr_ring[op.ret] > 0

\* the last call was a rendezvous::Ring::get_node that returned
RdvRingGot ==
    /\ sys = "rendezvous::Ring"
    /\ op.name = "get_node"
    /\ op.ok

\* the nodes whose score for the point is the greatest score of the ring
RdvTied(point) ==
    {id \in DOMAIN rdv_ring :
        \A o \in DOMAIN rdv_ring : RdvMaxScore(rdv_ring[o], point) <= RdvMaxScore(rdv_ring[id], point)}

\* C20 as stated: rendezvous::Ring::get_node returns a node of maximum score
\* (the maximum over its replica hashes of combine(replica_hash, ph)), and
\* of the nodes tied for the maximum the one with the smallest id.
C20_TieGoesToSmallestId ==
    RdvRingGot =>
        /\ op.ret \in RdvTied(op.arg)
        /\ \A o \in RdvTied(op.arg) : op.ret <= o

\* C20 amended: rendezvous::Ring::get_node returns a node of maximum score,
\* and of the nodes tied for the maximum the one with the greatest id.
C20_TieGoesToGreatestId ==
    RdvRingGot =>
        /\ op.ret \in RdvTied(op.arg)
        /\ \A o \in RdvTied(op.arg) : o <= op.ret

\* C20 witness: get_node returned while another node had the same, greatest,
\* score for the point
C20_Witness ==
    /\ RdvRingGot
    /\ op.ret \in RdvTied(op.arg)
    /\ \E o \in RdvTied(op.arg) : o < op.ret

\* the last call was an mpc::Ring::get_node that returned
MpcRingGot ==
    /\ sys = "mpc::Ring"
    /\ op.name = "get_node"
    /\ op.ok

\* (next_hash - hash) mod 2^64
MpcModDistance(hash, next_hash) == (next_hash - hash + HashMod) % HashMod

\* the probes of a point
MpcProbes(point) == {MpcProbe(point, i) : i \in 0 .. (mpc_hash_count - 1)}

\* C21: mpc::Ring::get_node: the distance of every probe to its wheel
\* successor is (next - probe) mod 2^64, for a successor found by wrapping
\* too, and the node returned is the one at the successor of a probe of
\* minimum distance.
C21_NearestProbeWins ==
    MpcRingGot =>
        /\ \A h \in MpcProbes(op.arg) :
              MpcGetDistance(h, MpcGetNextHash(mpc_nodes, h))
                  = MpcModDistance(h, MpcGetNextHash(mpc_nodes, h))
        /\ \E h \in MpcProbes(op.arg) :
              /\ mpc_nodes[MpcGetNextHash(mpc_nodes, h)] = op.ret
              /\ \A g \in MpcProbes(op.arg) :
                    MpcModDistance(h, MpcGetNextHash(mpc_nodes, h))
                        <= MpcModDistance(g, MpcGetNextHash(mpc_nodes, g))

\* insert_node(b); remove_node(b) has just completed on a non-empty ring
\* that did not hold b
MpcRoundTripDone ==
    /\ sys = "mpc::Ring"
    /\ mpc_trip.state = "removed"
    /\ DOMAIN mpc_trip.nodes # {}
    /\ \A k \in DOMAIN mpc_trip.nodes : mpc_trip.nodes[k] # mpc_trip.id

\* C22: mpc::Ring: insert_node(b) then remove_node(b), b not in the
\* non-empty ring: get_node of every point and len() are what they were
\* before the insertion, also when hash(b) is the hash of a node of the ring.
C22_RoundTripRestoresRing ==
    MpcRoundTripDone =>
        /\ \A p \in Keys : MpcRingGetNode(mpc_nodes, mpc_hash_count, p)
                            = MpcRingGetNode(mpc_trip.nodes, mpc_hash_count, p)
        /\ MpcLen(mpc_nodes) = MpcLen(mpc_trip.nodes)

\* C23: jump::Ring of N >= 1 nodes: get_node terminates for every key and
\* returns an ordinal i with 0 <= i < N.
C23_GetNodeInRange ==
    (sys = "jump::Ring" /\ op.name = "get_node") =>
        /\ op.ok
        /\ 0 <= op.ret
        /\ op.ret < jump_nodes
        /\ NoReturn \notin JumpRingGetNode(jump_nodes, op.arg)

\* C23 witness: get_node of a ring of the largest size returned an ordinal
\* other than the first and the last
C23_Witness ==
    /\ sys = "jump::Ring"
    /\ op.name = "get_node"
    /\ op.ok
    /\ jump_nodes = MaxJumpNodes
    /\ op.ret > 0
    /\ op.ret < jump_nodes - 1

\* a carp ring exists: it was constructed and no call on it has panicked
CarpRingLives == sys = "carp::Ring" /\ op.ok

\* C24: carp::Ring, after construction and after every insert_node and
\* remove_node: the node list is sorted ascending by weight, equal weights by
\* ascending id, holds each id at most once, and iter() yields that order.
C24_NodesSortedByWeightThenId ==
    CarpRingLives =>
        LET it == CarpIter(carp_nodes)
        IN  /\ Len(it) = Len(carp_nodes)
            /\ \A i \in 1 .. Len(it) : it[i][1] = carp_nodes[i].id
            /\ \A i, j \in 1 .. Len(it) :
                  i < j => /\ it[i][1] # it[j][1]
                           /\ \/ it[i][2] < it[j][2]
                              \/ it[i][2] = it[j][2] /\ it[i][1] < it[j][1]

\* the entries of the ring that hold an id
CarpEntries(nodes, id) == {i \in 1 .. Len(nodes) : nodes[i].id = id}

\* the ring holds id exactly once, with the weight
CarpHoldsOnce(nodes, id, weight) ==
    /\ Cardinality(CarpEntries(nodes, id)) = 1
    /\ \A i \in CarpEntries(nodes, id) : nodes[i].weight = weight

\* the ring just constructed holds every id of the list once, with the weight
\* of the id's last occurrence, and len() counts the ids
CarpKeepsLastOfList ==
    (CarpRingLives /\ op.name = "new") =>
        /\ \A k \in 1 .. Len(carp_list) :
              LET last == SetMax({i \in 1 .. Len(carp_list) : carp_list[i][1] = carp_list[k][1]})
              IN  CarpHoldsOnce(carp_nodes, carp_list[k][1], carp_list[last][2])
        /\ CarpLen(carp_nodes) = Cardinality({carp_list[k][1] : k \in 1 .. Len(carp_list)})

\* insert_node of an id the ring holds leaves the id once, with the new
\* weight, and len() as it was
CarpInsertReplaces ==
    (/\ CarpRingLives
     /\ op'.name = "insert_node"
     /\ op'.ok
     /\ CarpEntries(carp_nodes, op'.id) # {})
        => /\ CarpHoldsOnce(carp_nodes', op'.id, op'.arg)
           /\ CarpLen(carp_nodes') = CarpLen(carp_nodes)

\* C25: carp::Ring: an id that occurs several times in the constructor's list,
\* or is inserted while present, is held exactly once with the weight of its
\* last occurrence, and len() counts it once.
C25_DuplicateIdsKeepLast == [](CarpKeepsLastOfList) /\ [][CarpInsertReplaces]_vars

\* C25 witness: a ring constructed from a list that names one id twice with
\* different weights
C25_Witness ==
    /\ CarpRingLives
    /\ op.name = "new"
    /\ Len(carp_list) = 2
    /\ carp_list[1][1] = carp_list[2][1]
    /\ carp_list[1][2] # carp_list[2][2]
    /\ CarpHoldsOnce(carp_nodes, carp_list[2][1], carp_list[2][2])

\* C26: carp::Ring: constructing a ring with a node of weight NaN, or
\* inserting one, fails, whatever the size of the ring (also when that node
\* is the only node).
C26_NaNWeightFails ==
    sys = "carp::Ring" =>
        /\ (op.name = "new" /\ \E k \in 1 .. Len(carp_list) : carp_list[k][2] = NaNWeight)
              => ~op.ok
        /\ (op.name = "insert_node" /\ op.arg = NaNWeight) => ~op.ok

\* a non-empty carp ring whose weights are all non-negative and finite
CarpFiniteRing ==
    /\ CarpRingLives
    /\ carp_nodes # << >>
    /\ \A i \in 1 .. Len(carp_nodes) : carp_nodes[i].weight # NaNWeight

\* the relative weights are the recurrence's values over the list, divided by
\* the last node's
CarpIsRebalanced == carp_nodes = CarpRebalance(carp_nodes)

\* the largest relative weight is 1.0, none exceeds it and they do not decrease
CarpRelativeWeightsRise ==
    /\ carp_nodes[Len(carp_nodes)].relative_weight = FxInt(1)
    /\ \A i \in 1 .. Len(carp_nodes) :
          /\ carp_nodes[i].relative_weight.k = "fin"
          /\ carp_nodes[i].relative_weight.v <= Scale
    /\ \A i \in 1 .. (Len(carp_nodes) - 1) :
          carp_nodes[i].relative_weight.v <= carp_nodes[i + 1].relative_weight.v

\* weights in the proportion 0.2 : 0.4 : 0.4 give about (0.7746, 1.0, 1.0)
CarpTestWeights ==
    (/\ Len(carp_nodes) = 3
     /\ carp_nodes[1].weight = CarpWeight(1, 0)
     /\ carp_nodes[2].weight = CarpWeight(2, 0)
     /\ carp_nodes[3].weight = CarpWeight(2, 0))
        => /\ carp_nodes[1].relative_weight.v \in 77 .. 78
           /\ carp_nodes[2].relative_weight = FxInt(1)
           /\ carp_nodes[3].relative_weight = FxInt(1)

\* C28: carp::Ring, non-empty with non-negative finite weights, after
\* construction and after every insert_node / remove_node: the relative
\* weights are the recurrence's values divided by the last node's, the
\* largest is exactly 1.0, none exceeds 1.0, they are non-decreasing in sort
\* order, and weights (0.4, 0.4, 0.2) give about (0.7746, 1.0, 1.0).
C28_RelativeWeightsNormalised ==
    CarpFiniteRing => (CarpIsRebalanced /\ CarpRelativeWeightsRise /\ CarpTestWeights)

\* Client::len: the consistent client asks its ring, the other two count
\* their buckets
ClientLen ==
    IF sys = "consistent::Client" THEN ConRingLen(con_replicas)
    ELSE IF sys = "rendezvous::Client" THEN Cardinality(DOMAIN rdv_nodes)
    ELSE Cardinality(DOMAIN wr_nodes)

\* Ring::len of the ring the client embeds
ClientRingLen ==
    IF sys = "consistent::Client" THEN ConRingLen(con_replicas)
    ELSE IF sys = "rendezvous::Client" THEN Cardinality(DOMAIN rdv_ring)
    ELSE Cardinality(DOMAIN wr_ring)

\* Client::is_empty: self.ring.is_empty()
ClientIsEmpty ==
    IF sys = "consistent::Client" THEN ConRingIsEmpty(con_replicas)
    ELSE IF sys = "rendezvous::Client" THEN DOMAIN rdv_ring = {}
    ELSE DOMAIN wr_ring = {}

\* C27: every tracking client, while no call has failed: len() is the
\* embedded ring's len(), is_empty() holds exactly when len() is 0, and the
\* nodes that have a bucket are the nodes of the ring (rendezvous and
\* weighted rendezvous clients).
C27_ClientLenIsRingLen ==
    (sys \in Clients /\ op.ok) =>
        /\ ClientLen = ClientRingLen
        /\ ClientIsEmpty <=> ClientLen = 0
        /\ sys = "rendezvous::Client" => DOMAIN rdv_nodes = DOMAIN rdv_ring
        /\ sys = "weighted_rendezvous::Client" => DOMAIN wr_nodes = DOMAIN wr_ring

\* C27 witness: a rendezvous or weighted rendezvous client that holds two
\* nodes after a node was removed
C27_Witness ==
    /\ sys \in {"rendezvous::Client", "weighted_rendezvous::Client"}
    /\ op.ok
    /\ op.name = "remove_node"
    /\ ClientLen = 2
    /\ ClientRingLen = 2
    /\ ~ClientIsEmpty

\* ph lies on the arc of the ring that leads from nh to sh, ends excluded
ConInArc(nh, ph, sh) ==
    IF nh < sh THEN nh < ph /\ ph < sh ELSE nh < ph \/ ph < sh

\* replica r of insert_node(id, ..) on the data map `before`, which gave the
\* data map `after`: a position that was not a data key takes from its
\* successor bucket exactly the points on the arc, or starts empty
ConReplicaTakesArc(before, after, id, r) ==
    LET nh == ReplicaHash(id, r)
        sh == ConNextKey(before, nh)
    IN  nh \notin DOMAIN before =>
            IF sh = NoKey THEN after[nh] = {}
            ELSE /\ after[nh] = {p \in before[sh] : ConInArc(nh, GenHashPoint(p), sh)}
                 /\ after[sh] = before[sh] \ after[nh]

\* C29: consistent::Client::insert_node(id, R): every new replica position nh
\* that was not a data key receives from the bucket of its wheel successor sh
\* exactly the points whose hash lies on the arc (nh, sh), the other points
\* stay in data[sh]; without a successor data[nh] is created empty.
C29_InsertNodeMovesArc ==
    [][(/\ sys = "consistent::Client"
        /\ op.ok
        /\ op'.name = "insert_node"
        /\ op'.ok)
          => \A r \in 0 .. (op'.arg - 1) :
                ConReplicaTakesArc(ConInsertLoop(con_data, op'.id, 0, r),
                                   ConInsertLoop(con_data, op'.id, 0, r + 1), op'.id, r)]_vars

\* the replica positions of the nodes the ring holds
ConWheelPositions ==
    UNION {ReplicaHashes(id, con_replicas[id]) : id \in DOMAIN con_replicas}

ConWheelIsPositions == op.ok => DOMAIN con_nodes = ConWheelPositions

\* a remove_node(id) that returned took from the wheel only entries holding id
ConRemoveTakesOwn ==
    (op.ok /\ op'.name = "remove_node" /\ op'.ok)
        => /\ DOMAIN con_nodes' \subseteq DOMAIN con_nodes
           /\ \A k \in DOMAIN con_nodes :
                 /\ k \notin DOMAIN con_nodes' => con_nodes[k] = op'.id
                 /\ k \in DOMAIN con_nodes' => con_nodes'[k] = con_nodes[k]

\* C30: consistent::Ring, in every state reached by insert_node and
\* remove_node: the wheel keys are exactly the positions
\* combine(hash(id), hash(r)), r in [0, R), of the nodes present with their
\* replica count R (no entry is missing, none survives a removed node or a
\* re-insertion with fewer replicas), and remove_node(id) deletes only wheel
\* entries that hold id.
C30_WheelIsReplicaPositions ==
    /\ [](sys = "consistent::Ring" => ConWheelIsPositions)
    /\ [][sys = "consistent::Ring" => ConRemoveTakesOwn]_vars

\* two f64 scores are the same value
ScoreSame(a, b) ==
    IF a.k = "fin" /\ b.k = "fin" THEN a.n * b.d = b.n * a.d ELSE a.k = b.k

\* the points whose entry the call that just returned has stored: the point of
\* insert_point, the bucket of the node remove_node removed
WrStoredBy ==
    IF op'.name = "insert_point" THEN {op'.arg}
    ELSE IF op'.name = "remove_node" /\ op'.id \in DOMAIN wr_nodes THEN wr_nodes[op'.id]
    ELSE {}

\* C31: weighted_rendezvous::Client: the score insert_point and remove_node
\* store for a point is the score -w / ln(u / 2^64) of its owner, with
\* u = combine(hash(owner), hash(point)): the quantity insert_node computes for
\* the inserted node and compares against the stored score.
C31_StoredScoreIsOwnerScore ==
    [][(sys = "weighted_rendezvous::Client" /\ op.ok /\ op'.ok)
          => \A p \in WrStoredBy :
                LET owner == wr_points'[p].node
                IN  ScoreSame(wr_points'[p].score,
                              WrRingScore(wr_ring'[owner], WrHash(owner, p)))]_vars

\* the nodes of the driven client whose get_points holds the point p
ClientHolders(p) == {n \in ClientNodes : p \in ClientGetPoints(n)}

\* this step is an insert_node(id, ..) that returned, of an id the client did not hold
InsertsNewNode ==
    /\ sys \in Clients
    /\ op.ok
    /\ op'.name = "insert_node"
    /\ op'.ok
    /\ op'.id \notin ClientNodes

\* C32: each tracking client: insert_node of an id that is not present moves a
\* tracked point only into the bucket of the inserted node: afterwards every
\* tracked point is with the node it had before the call or with the inserted
\* node, and no point has moved between two nodes that were present before.
C32_InsertMovesOnlyToNewNode ==
    [][InsertsNewNode =>
          \A p \in ClientPoints :
              /\ ClientHolders(p)' \subseteq ClientHolders(p) \cup {op'.id}
              /\ ClientHolders(p) # {} => ClientHolders(p)' # {}]_vars

\* this step is a remove_node(id) of a present node that returned
RemovesNodeAndReturns == RemovesPresentNode /\ op.ok /\ op'.ok

\* C33: each tracking client: a remove_node(id) that returns changes the
\* bucket only of the points that were in id's bucket: each of them is
\* afterwards in the bucket of a remaining node, every other tracked point is
\* with the node it had before, and the set of tracked points is unchanged.
C33_RemoveMovesOnlyOwnPoints ==
    [][RemovesNodeAndReturns =>
          /\ ClientPoints' = ClientPoints
          /\ \A p \in ClientPoints :
                IF p \in ClientGetPoints(op'.id)
                    THEN ClientHolders(p)' # {}
                    ELSE ClientHolders(p)' = ClientHolders(p)]_vars

\* the last call constructed a maglev ring from a non-empty list with a
\* capacity hint that has a prime at or above it
MagConstructedNonEmpty ==
    \E n \in 1 .. MaxMagLen : MagConstructedFrom(n) /\ op.arg >= 1

\* the nodes of the list the maglev ring was built from
MagListed == {mag_nodes[i] : i \in 1 .. Len(mag_nodes)}

\* C34: maglev::Ring from a non-empty node list (duplicates and lists longer
\* than the capacity included) and a prime capacity M: populate returns after
\* giving each of the M slots a node index, it never reads a permutation at an
\* index >= M (which would panic), every slot holds the index of a listed
\* node, and get_node returns a listed node for every key.
C34_PopulateFillsEverySlot ==
    sys = "maglev::Ring" =>
        /\ MagConstructedNonEmpty =>
              /\ op.ok
              /\ MagNodes(mag_nodes) = op.id
              /\ IsPrime(MagCapacity(mag_lookup))
              /\ \A c \in 1 .. MagCapacity(mag_lookup) :
                    mag_lookup[c] \in 0 .. (MagNodes(mag_nodes) - 1)
        /\ op.name = "get_node" => (op.ok /\ op.ret \in MagListed)

\* C34 witness: get_node has answered on a ring built from a list that names
\* a node twice and is longer than the table
C34_Witness ==
    /\ sys = "maglev::Ring"
    /\ op.name = "get_node"
    /\ op.ok
    /\ MagNodes(mag_nodes) > MagCapacity(mag_lookup)
    /\ Cardinality(MagListed) < MagNodes(mag_nodes)
    /\ Cardinality(MagListed) >= 2

\* the number of lookup slots that map to the node x
MagSlotsOf(x) ==
    Cardinality({c \in 1 .. Len(mag_lookup) : MagSlotNode(mag_nodes, mag_lookup, c) = x})

\* the number of lookup slots that hold the list index j (from 0)
MagSlotsOfIndex(j) == Cardinality({c \in 1 .. Len(mag_lookup) : mag_lookup[c] = j})

\* C35: maglev::Ring from a non-empty list of N nodes and capacity M: after
\* construction the numbers of lookup slots of any two listed nodes differ by
\* at most 1.
C35_SlotsBalanced ==
    (sys = "maglev::Ring" /\ op.ok /\ mag_nodes # << >>) =>
        \A x, y \in MagListed : MagSlotsOf(x) - MagSlotsOf(y) <= 1

\* C35 amended: each list entry j owns floor(M/N) or ceil(M/N) of the M lookup
\* slots, the slots that hold j, so the slot counts of two entries differ by at
\* most 1; a node the list names k times owns the slots of its k entries, and
\* the nodes of a list without repetition differ by at most one slot.
C35_SlotsBalancedPerEntry ==
    (sys = "maglev::Ring" /\ op.ok /\ mag_nodes # << >>) =>
        LET n == Len(mag_nodes)
            floor == Len(mag_lookup) \div n
            ceil == (Len(mag_lookup) + n - 1) \div n
        IN  /\ \A j \in 0 .. (n - 1) :
                  floor <= MagSlotsOfIndex(j) /\ MagSlotsOfIndex(j) <= ceil
            /\ \A x \in MagListed :
                  LET k == Cardinality({i \in 1 .. n : mag_nodes[i] = x})
                  IN  k * floor <= MagSlotsOf(x) /\ MagSlotsOf(x) <= k * ceil

\* C35 witness: a table of more slots than list entries, built from a list that
\* names one node twice and another once
C35_Witness ==
    /\ sys = "maglev::Ring"
    /\ op.ok
    /\ Len(mag_nodes) = 3
    /\ Cardinality(MagListed) = 2
    /\ Len(mag_lookup) > 100

\* the while loop of get_node run for the same key (same hasher) on a ring of
\* `nodes` and on a ring of `nodes` + 1 nodes: the two loops pass through the
\* same values of h, i and j until the smaller ring leaves its loop; the
\* result is the set of pairs <<ordinal on the smaller ring, ordinal on the
\* larger ring>>
RECURSIVE JumpLoopBoth(_, _, _, _, _)
JumpLoopBoth(nodes, h, i, j, fuel) ==
    IF ~(j < nodes) THEN {<<JumpAsU32(i), more>> : more \in JumpLoop(nodes + 1, h, i, j, fuel)}
    ELSE IF fuel = 0 THEN {<<NoReturn, NoReturn>>}
    ELSE UNION {JumpLoopBoth(nodes, JumpStep(h), j, next, fuel - 1) :
                    next \in JumpNext(j, JumpStep(h))}

JumpRingGetNodeBoth(nodes, key) ==
    JumpLoopBoth(nodes, JumpHash(key), 0 - 1, 0, JumpHashMod * (nodes + 2))

\* the last call is a get_node that returned on a jump ring of N + 1 nodes, N >= 1
JumpGotOnGrown ==
    /\ sys = "jump::Ring"
    /\ op.name = "get_node"
    /\ op.ok
    /\ jump_nodes >= 2

\* C36: jump::Ring: for every key and N >= 1, get_node on the ring of N + 1
\* nodes returns the ordinal the ring of N nodes returns for the key, or the
\* new ordinal N.
C36_GrowthMovesKeysToNewNode ==
    JumpGotOnGrown =>
        \A both \in JumpRingGetNodeBoth(jump_nodes - 1, op.arg) :
            both[2] = op.ret => (both[2] = both[1] \/ both[2] = jump_nodes - 1)

\* C36 witness: a key has moved to the new ordinal of a ring of three or more
\* nodes, on which another key would have stayed
C36_Witness ==
    /\ JumpGotOnGrown
    /\ jump_nodes >= 3
    /\ op.ret = jump_nodes - 1
    /\ \E both \in JumpRingGetNodeBoth(jump_nodes - 1, op.arg) :
          both[2] = op.ret /\ both[1] # both[2]
    /\ \E key \in 0 .. MaxJumpKey :
          \E both \in JumpRingGetNodeBoth(jump_nodes - 1, key) :
              both[1] = both[2] /\ both[1] # NoReturn

\* C37: consistent::Client, in every reachable state: the keys of the data
\* map are the keys of the ring's wheel: every wheel position has a bucket
\* (empty or not), and there is no bucket for a position that is not on the
\* wheel.
C37_DataKeysAreWheelKeys ==
    sys = "consistent::Client" => DOMAIN con_data = DOMAIN con_nodes

\* C37 witness: after a remove_node that returned, the wheel holds two or more
\* positions, one with an empty bucket and one with a point
C37_Witness ==
    /\ sys = "consistent::Client"
    /\ op.name = "remove_node"
    /\ op.ok
    /\ \E h, k \in DOMAIN con_nodes : con_data[h] = {} /\ con_data[k] # {}

\* C38: consistent::Ring, in every state reached by insert_node (replica
\* counts >= 1) and remove_node in which is_empty() is false: get_node returns
\* a node for every point, also after a node whose replica position a
\* colliding node had taken over has seen that node removed.
C38_NonEmptyRingAnswers ==
    (sys = "consistent::Ring" /\ op.ok /\ ~ConRingIsEmpty(con_replicas)) =>
        \A point \in Points : ConRingGetNode(con_nodes, point) # NoNode

\* C39: consistent::Client, in every reachable state: iter() runs to its end
\* without failing and yields one (node, points) pair for each node of the
\* ring, with the points get_points returns for the node, also when a
\* replica position of a present node has no bucket in the data map.
C39_IterYieldsEveryNode ==
    (sys = "consistent::Client" /\ op.ok) =>
        LET it == ConClientIter(con_data, con_replicas)
        IN  /\ it.ok
            /\ it.items = {<<id, ConGetPoints(con_data, con_replicas, id)>> :
                              id \in DOMAIN con_replicas}

\* the nodes of the ring the driven tracking client embeds
ClientRingNodes ==
    IF sys = "consistent::Client" THEN DOMAIN con_replicas
    ELSE IF sys = "rendezvous::Client" THEN DOMAIN rdv_ring
    ELSE DOMAIN wr_ring

\* this step is a remove_node(id) that failed
RemoveNodeFails ==
    /\ sys \in Clients
    /\ op.ok
    /\ op'.name = "remove_node"
    /\ ~op'.ok

\* C40: each tracking client: a remove_node that fails (unknown id, or the
\* removal of the last node) leaves the client as it was: len(), is_empty(),
\* the nodes of the ring and get_points of every node are unchanged.
C40_FailedRemoveChangesNothing ==
    [][RemoveNodeFails =>
          /\ ClientLen' = ClientLen
          /\ ClientIsEmpty' = ClientIsEmpty
          /\ ClientRingNodes' = ClientRingNodes
          /\ ClientNodes' = ClientNodes
          /\ \A id \in ClientNodes : ClientGetPoints(id)' = ClientGetPoints(id)]_vars

====
